---- MODULE Spec2Model ----
(***************************************************************************)
(* Mantid: the server-side action engine (functions/src/gameActions.js),   *)
(* the bot decision helper it calls (functions/index.js, botTrigger), the  *)
(* deck and rule helpers (cardLogic, gameRules) and the client writes that *)
(* touch the same game document (startGame in src/hooks/useGameState.js).  *)
(*                                                                         *)
(* Conventions.  JS arrays are 0-based: player indices and                 *)
(* currentPlayerIndex are kept 0-based and players[i] of the code is       *)
(* g.players[i + 1] here.  A nullable object field is a sequence of length *)
(* 0 (null) or 1.  A missing / null / empty string id is "".  A card       *)
(* `${color}-${i}` is the integer color * CardsPerColor + i.               *)
(***************************************************************************)
EXTENDS Integers, Sequences, FiniteSets, TLC

VARIABLES
    game,            \* the Firestore document games/{gameId}
    now,             \* Date.now() on the server
    idCounter,       \* number of bot actionIds generated so far
    response,        \* what the last performAction call returned
    pendingStarts,   \* startGame calls issued whose updateDoc has not landed
    pendingTriggers, \* processBotTurn runs whose update() has not landed
    consumedIds,     \* history: actionIds of the pending bot actions that a
                     \* committed call has marked consumed
    tx,              \* the transactions of processAction calls in flight
    animationPlayer, \* a client's AnimationPlayer, its timers and its clock
    coordinator,     \* a client's AnimationCoordinator and the sequences it runs
    board,           \* a client's GameBoard hint bookkeeping and what is on its way to it
    ui,              \* a client's GameBoard click handlers and where each one is
    hook,            \* a client's useGameState: visible game, buffer, snapshot callback
    botCall          \* a call of the bot decision function: its arguments and result

\* the variables of the game document and of the calls on it
server == <<game, now, idCounter, response, pendingStarts, pendingTriggers,
            consumedIds>>

\* what the steps on the game document leave alone
\* the components of a client
clients == <<animationPlayer, coordinator, board, ui, hook, botCall>>

aside == <<tx, animationPlayer, coordinator, board, ui, hook, botCall>>

vars == <<game, now, idCounter, response, pendingStarts, pendingTriggers,
          consumedIds, tx, animationPlayer, coordinator, board, ui, hook, botCall>>

----------------------------------------------------------------------------
(* Program constants *)

NumColors == 7

CardsPerColor == 15

DealCount == 4

WIN_CONDITION_STANDARD == 10

WIN_CONDITION_TWO_PLAYER == 15

BotActionTTL == 30000

\* durations (ms) GameBoard gives its AnimationPlayer
flipMs == 800

holdMs == 1000

fadeMs == 400

\* playOptimisticFlip: the fallback fires flipMs + 100 after the start
FallbackBufferMs == 100

\* playHint: a hint is queued when more than 20 ms of flip timeline remain
QueueThresholdMs == 20

\* playScoreSuccess / playStealSuccess: highlight 400, complete at 1400
HighlightMs == 400

SuccessMs == 1400

\* playScoreFail / playStealFail: complete at 500
FailMs == 500

\* AnimationCoordinator: defaultTimeout of the wait on complete()
defaultTimeout == 1500

(* Bounds of the exploration *)

\* successful actions explored per deal in a game of two humans
MaxActionsTwo == 8

\* successful actions explored per deal in a game of three humans
MaxActionsThree == 7

\* successful actions explored per deal in the other games
MaxActionsOther == 3

\* successful actions explored on top of these once a game is finished
MaxAfterFinish == 1

\* startGame calls issued per game (the first one and repeated ones)
MaxStartCalls == 2

\* processBotTurn runs in flight at once
MaxTriggers == 1

\* the server clock stops advancing past this value
MaxTime == 30001

\* concurrent processAction transactions, and commits explored with them
MaxInflight == 2

MaxTxCommits == 3

\* one client's animation player: optimistic flips, server hints and the
\* clock (ms) explored
MaxFlips == 1

MaxHints == 1

MaxClock == 4000

\* sequences enqueued on one client's coordinator
MaxSequences == 3

\* hints the server issues and snapshots one client receives
MaxHintsIssued == 2

MaxSnapshots == 4

\* Score and Steal clicks on one client
MaxClicks == 2

\* committed actions followed on a subscribed client
MaxCommitted == 3

\* snapshots received by a hook that buffers
MaxBuffered == 2

\* players of a snapshot handed to the bot decision
MaxBotPlayers == 3

----------------------------------------------------------------------------
(* Cards and deck: cardLogic *)

DeckSize == NumColors * CardsPerColor

Cards == 0 .. (DeckSize - 1)

COLORS == 0 .. (NumColors - 1)

Color(card) == card \div CardsPerColor

generateCardId(color, index) == color * CardsPerColor + index

\* all 3-combinations i < j < k of the colors
generateBackColorCombinations ==
    {c \in COLORS \X COLORS \X COLORS : c[1] < c[2] /\ c[2] < c[3]}

\* position of a combination in the order the nested loops push them
ComboRank(c) == c[1] * NumColors * NumColors + c[2] * NumColors + c[3]

validBacks(color) ==
    {c \in generateBackColorCombinations : color \in {c[1], c[2], c[3]}}

\* validBacks[i % validBacks.length] of the card color-i
BackColorsTable ==
    [card \in Cards |->
        LET vb == validBacks(Color(card))
            i  == (card % CardsPerColor) % Cardinality(vb)
            c  == CHOOSE x \in vb :
                      Cardinality({y \in vb : ComboRank(y) < ComboRank(x)}) = i
        IN  {c[1], c[2], c[3]}]

\* variant: the face color is among what is read
BackColors_Face(card) == {Color(card)}

BackColors(card) == BackColorsTable[card]

\* generateDeck: the 105 cards, color by color
generateDeck == [k \in 1 .. DeckSize |-> k - 1]

\* variant: the last card of the tank, the one just drawn, is not matched
findMatchingCards_SkipDrawn(tank, color) ==
    SelectSeq(SubSeq(tank, 1, Len(tank) - 1), LAMBDA c : Color(c) = color)

findMatchingCards(tank, color) == SelectSeq(tank, LAMBDA c : Color(c) = color)

\* variant: the matched cards stay in the tank
WithoutCards_Keep(tank, matchingCards) == tank

\* tank.filter(card => !matchingCards.some(m => m.id === card.id))
WithoutCards(tank, matchingCards) ==
    SelectSeq(tank, LAMBDA c : \A k \in 1 .. Len(matchingCards) : matchingCards[k] # c)

RECURSIVE Reverse(_)
Reverse(s) == IF s = <<>> THEN <<>> ELSE Reverse(Tail(s)) \o <<Head(s)>>

RECURSIVE CardsOfColors(_, _)
\* the cards of a color sequence: the k-th card of a color is color-(k-1)
CardsOfColors(colors, used) ==
    IF colors = <<>> THEN <<>>
    ELSE LET c == Head(colors)
             n == Cardinality({k \in 1 .. Len(used) : used[k] = c})
         IN  <<generateCardId(c, n)>> \o CardsOfColors(Tail(colors), Append(used, c))

\* a shuffle outcome whose top cards (first = top) have the given colors; the
\* other cards stay below in generateDeck order
StackedDeck(topColors) ==
    LET top  == CardsOfColors(topColors, <<>>)
        rest == SelectSeq(generateDeck, LAMBDA c : \A k \in 1 .. Len(top) : top[k] # c)
    IN  rest \o Reverse(top)

\* shuffleDeck(generateDeck()): Fisher-Yates can return any permutation; these
\* are the ones explored
Shuffles ==
    << generateDeck,
       StackedDeck(<<0,1,0,1,0,1,0,1,  0,2,1,1,3,2,4,3,  5,5>>),
       StackedDeck(<<0,1,2,0,1,2,0,1,2,0,1,2,  0,3,4,1,5,6,1,  3,3>>) >>

\* dealInitialHands: 4 rounds, one pop per player per round
dealInitialHands(deck, numPlayers) ==
    LET popped(i, j) == (i - 1) * numPlayers + j   \* j-th player, i-th round
    IN  [ hands |-> [j \in 1 .. numPlayers |->
                        [i \in 1 .. DealCount |->
                            IF popped(i, j) <= Len(deck)
                            THEN deck[Len(deck) - popped(i, j) + 1]
                            ELSE -1]],
          remainingDeck |-> SubSeq(deck, 1, Len(deck) - DealCount * numPlayers) ]

----------------------------------------------------------------------------
(* Turn and win rules: gameRules *)

\* variant: the standard threshold whatever the number of players
checkWinCondition_Standard(scoreCount, numPlayers) ==
    scoreCount >= WIN_CONDITION_STANDARD

checkWinCondition(scoreCount, numPlayers) ==
    LET target == IF numPlayers = 2 THEN WIN_CONDITION_TWO_PLAYER
                  ELSE WIN_CONDITION_STANDARD
    IN  scoreCount >= target

\* variant: no wrap-around
getNextPlayerIndex_NoWrap(currentPlayerIndex, numPlayers) ==
    currentPlayerIndex + 1

getNextPlayerIndex(currentPlayerIndex, numPlayers) ==
    (currentPlayerIndex + 1) % numPlayers

----------------------------------------------------------------------------
(* Bot decision: functions/index.js (botTrigger), the server copy *)

NoTarget == -1

\* matchingColors.length; the probability is this count / 3
MatchingColorCount(tank, backColors) ==
    Cardinality({Color(tank[k]) : k \in 1 .. Len(tank)} \cap backColors)

\* calculateMatchProbability(tank, backColors) >= hundredths / 100
ProbAtLeast(tank, backColors, hundredths) ==
    MatchingColorCount(tank, backColors) * 100 >= hundredths * 3

RECURSIVE ScanMax(_, _, _, _, _, _)
\* players.forEach((player, index) => { if (index !== botIndex &&
\*   value(player) > max) { max = value(player); best = index } })
ScanMax(values, botIndex, index, max, best, n) ==
    IF index >= n THEN best
    ELSE IF index # botIndex /\ values[index + 1] > max
         THEN ScanMax(values, botIndex, index + 1, values[index + 1], index, n)
         ELSE ScanMax(values, botIndex, index + 1, max, best, n)

findLeadingOpponent(g, botIndex) ==
    ScanMax([k \in 1 .. Len(g.players) |-> g.players[k].scoreCount],
            botIndex, 0, -1, NoTarget, Len(g.players))

\* variant: the opponent with the highest score instead
findPlayerWithMostCards_Leader(g, botIndex) ==
    ScanMax([k \in 1 .. Len(g.players) |-> g.players[k].scoreCount],
            botIndex, 0, -1, NoTarget, Len(g.players))

findPlayerWithMostCards(g, botIndex) ==
    ScanMax([k \in 1 .. Len(g.players) |-> Len(g.players[k].tank)],
            botIndex, 0, -1, NoTarget, Len(g.players))

\* rnd.low: Math.random() < 0.6; rnd.pick: Math.floor(Math.random() * n)
easyStrategy(g, botIndex, rnd) ==
    IF rnd.low \/ Len(g.players) = 1
    THEN [action |-> "score", targetPlayer |-> NoTarget]
    ELSE LET opponentIndices ==
                 SelectSeq([k \in 1 .. Len(g.players) |-> k - 1],
                           LAMBDA idx : idx # botIndex)
         IN  [action |-> "steal",
              targetPlayer |-> opponentIndices[(rnd.pick % Len(opponentIndices)) + 1]]

mediumStrategy(g, botIndex) ==
    LET bot     == g.players[botIndex + 1]
        topCard == g.drawPile[Len(g.drawPile)]
        targetIndex == findPlayerWithMostCards(g, botIndex)
    IN  IF ProbAtLeast(bot.tank, BackColors(topCard), 33)
        THEN [action |-> "score", targetPlayer |-> NoTarget]
        ELSE IF targetIndex = NoTarget
        THEN [action |-> "score", targetPlayer |-> NoTarget]
        ELSE [action |-> "steal", targetPlayer |-> targetIndex]

\* variant: never steals from the opponent most likely to match
hardStrategy_NoBlock(g, botIndex) ==
    IF ProbAtLeast(g.players[botIndex + 1].tank,
                   BackColors(g.drawPile[Len(g.drawPile)]), 33)
    THEN [action |-> "score", targetPlayer |-> NoTarget]
    ELSE IF findPlayerWithMostCards(g, botIndex) = NoTarget
    THEN [action |-> "score", targetPlayer |-> NoTarget]
    ELSE [action |-> "steal", targetPlayer |-> findPlayerWithMostCards(g, botIndex)]

\* variant: the block rule fires from probability 0.33
hardStrategy_LowBlock(g, botIndex) ==
    LET bot     == g.players[botIndex + 1]
        topCard == g.drawPile[Len(g.drawPile)]
        back    == BackColors(topCard)
        counts  == [k \in 1 .. Len(g.players) |->
                       MatchingColorCount(g.players[k].tank, back)]
        \* bestStealProb starts at 0, so a target needs a count above 0
        bestStealTargetIndex == ScanMax(counts, botIndex, 0, 0, NoTarget, Len(g.players))
        bestStealCount == IF bestStealTargetIndex = NoTarget THEN 0
                          ELSE counts[bestStealTargetIndex + 1]
        leadingOpponentIndex == findLeadingOpponent(g, botIndex)
        targetIndex == findPlayerWithMostCards(g, botIndex)
    IN  IF ProbAtLeast(bot.tank, back, 50)
        THEN [action |-> "score", targetPlayer |-> NoTarget]
        ELSE IF bestStealTargetIndex = leadingOpponentIndex /\ bestStealCount * 100 >= 33 * 3
        THEN [action |-> "steal", targetPlayer |-> bestStealTargetIndex]
        ELSE IF bestStealCount * 100 >= 50 * 3 /\ bestStealTargetIndex # NoTarget
        THEN [action |-> "steal", targetPlayer |-> bestStealTargetIndex]
        ELSE IF MatchingColorCount(bot.tank, back) > 0
        THEN [action |-> "score", targetPlayer |-> NoTarget]
        ELSE IF targetIndex = NoTarget
        THEN [action |-> "score", targetPlayer |-> NoTarget]
        ELSE [action |-> "steal", targetPlayer |-> targetIndex]

hardStrategy(g, botIndex) ==
    LET bot     == g.players[botIndex + 1]
        topCard == g.drawPile[Len(g.drawPile)]
        back    == BackColors(topCard)
        counts  == [k \in 1 .. Len(g.players) |->
                       MatchingColorCount(g.players[k].tank, back)]
        \* bestStealProb starts at 0, so a target needs a count above 0
        bestStealTargetIndex == ScanMax(counts, botIndex, 0, 0, NoTarget, Len(g.players))
        bestStealCount == IF bestStealTargetIndex = NoTarget THEN 0
                          ELSE counts[bestStealTargetIndex + 1]
        leadingOpponentIndex == findLeadingOpponent(g, botIndex)
        targetIndex == findPlayerWithMostCards(g, botIndex)
    IN  IF ProbAtLeast(bot.tank, back, 50)
        THEN [action |-> "score", targetPlayer |-> NoTarget]
        ELSE IF bestStealTargetIndex = leadingOpponentIndex /\ bestStealCount * 100 >= 66 * 3
        THEN [action |-> "steal", targetPlayer |-> bestStealTargetIndex]
        ELSE IF bestStealCount * 100 >= 50 * 3 /\ bestStealTargetIndex # NoTarget
        THEN [action |-> "steal", targetPlayer |-> bestStealTargetIndex]
        ELSE IF MatchingColorCount(bot.tank, back) > 0
        THEN [action |-> "score", targetPlayer |-> NoTarget]
        ELSE IF targetIndex = NoTarget
        THEN [action |-> "score", targetPlayer |-> NoTarget]
        ELSE [action |-> "steal", targetPlayer |-> targetIndex]

makeBotDecision(g, botIndex, difficulty, rnd) ==
    IF g.drawPile = <<>> THEN [action |-> "score", targetPlayer |-> NoTarget]
    ELSE IF difficulty = "easy" THEN easyStrategy(g, botIndex, rnd)
    ELSE IF difficulty = "hard" THEN hardStrategy(g, botIndex)
    ELSE mediumStrategy(g, botIndex)

\* the outcomes of Math.random() the easy strategy distinguishes
RandomDraws == [low : BOOLEAN, pick : 0 .. 1]

\* botPendingAction computed for the bot at botIndex of g, or <<>> when the
\* player there is no bot
ComputePendingAction(g, botIndex, t, newActionId, rnd) ==
    LET nextPlayer == g.players[botIndex + 1]
        difficulty == IF nextPlayer.botDifficulty = "" THEN "medium"
                      ELSE nextPlayer.botDifficulty
        botDecision == makeBotDecision(g, botIndex, difficulty, rnd)
    IN  << [ action |-> botDecision.action,
             targetPlayerId |-> IF botDecision.targetPlayer # NoTarget
                                THEN g.players[botDecision.targetPlayer + 1].id
                                ELSE "",
             actionId |-> newActionId,
             computedAt |-> t,
             expiresAt |-> t + BotActionTTL,
             consumed |-> FALSE,
             botPlayerId |-> nextPlayer.id ] >>

----------------------------------------------------------------------------
(* The decision function called on any snapshot.  The client copy           *)
(* (src/utils/botLogic.js) validates its arguments and wraps the strategy   *)
(* in try/catch; the server copy (functions/index.js) does neither.         *)

NewBot ==
    [botIndex |-> 0, difficulty |-> "medium", copy |-> "none", decision |-> <<>>]

ScoreDecision == [action |-> "score", targetPlayer |-> NoTarget]

\* the call ended in an exception
Thrown == [action |-> "throw", targetPlayer |-> NoTarget]

ValidBotIndex(g, botIndex) == botIndex >= 0 /\ botIndex < Len(g.players)

\* botLogic.js makeBotDecision(game, botIndex, difficulty)
botLogic_makeBotDecision(g, botIndex, difficulty, rnd) ==
    IF ~ValidBotIndex(g, botIndex) THEN ScoreDecision
    ELSE IF g.drawPile = <<>> THEN ScoreDecision
    ELSE IF difficulty = "easy" THEN easyStrategy(g, botIndex, rnd)
    ELSE IF difficulty = "hard" THEN hardStrategy(g, botIndex)
    ELSE mediumStrategy(g, botIndex)

\* functions/index.js makeBotDecision(game, botIndex, difficulty):
\* game.players[botIndex] is undefined for an index out of range, and the
\* medium and hard strategies read bot.tank
botTrigger_makeBotDecision(g, botIndex, difficulty, rnd) ==
    IF g.drawPile = <<>> THEN ScoreDecision
    ELSE IF difficulty # "easy" /\ ~ValidBotIndex(g, botIndex) THEN Thrown
    ELSE makeBotDecision(g, botIndex, difficulty, rnd)

----------------------------------------------------------------------------
(* Action engine: functions/src/gameActions.js *)

RECURSIVE SumSeq(_)
SumSeq(s) == IF s = <<>> THEN 0 ELSE Head(s) + SumSeq(Tail(s))

\* players.findIndex(p => p.id === id), -1 when there is none
findIndex(players, id) ==
    IF \E k \in 1 .. Len(players) : players[k].id = id
    THEN (CHOOSE k \in 1 .. Len(players) :
              /\ players[k].id = id
              /\ \A m \in 1 .. (k - 1) : players[m].id # id) - 1
    ELSE -1

\* `${uid}-local-`: the local player ids a user id is the prefix of
LocalIdsOf(uid) ==
    IF uid = "alice" THEN {"alice-local-0", "alice-local-1"} ELSE {}

\* variant: every caller passes for the local controller
StartsWithLocalPrefix_Any(id, userId) == TRUE

\* p.id.startsWith(`${userId}-local-`)
StartsWithLocalPrefix(id, userId) == id \in LocalIdsOf(userId)

\* the next current player's pending action, when that player is a bot
NextBotPending(newGame, nextPlayerIndex, t, newActionId, rnd) ==
    IF /\ nextPlayerIndex + 1 \in DOMAIN newGame.players
       /\ newGame.players[nextPlayerIndex + 1].isBot
    THEN ComputePendingAction(newGame, nextPlayerIndex, t, newActionId, rnd)
    ELSE newGame.botPendingAction

executeScoreAction(g, playerIndex, t, newActionId, rnd) ==
    LET drawPile    == SubSeq(g.drawPile, 1, Len(g.drawPile) - 1)
        drawnCard   == g.drawPile[Len(g.drawPile)]
        player      == g.players[playerIndex + 1]
        updatedTank == Append(player.tank, drawnCard)
        matchingCards == findMatchingCards(updatedTank, Color(drawnCard))
        isSuccess   == Len(matchingCards) >= 2
        scoreIncrement == IF isSuccess THEN Len(matchingCards) ELSE 0
        newTank     == IF isSuccess THEN WithoutCards(updatedTank, matchingCards)
                       ELSE updatedTank
        affectedCardIds == IF isSuccess THEN matchingCards ELSE <<drawnCard>>
        updatedPlayers ==
            [k \in 1 .. Len(g.players) |->
                IF k - 1 = playerIndex
                THEN [g.players[k] EXCEPT !.tank = newTank,
                                          !.scoreCount = @ + scoreIncrement]
                ELSE g.players[k]]
        topCardBack == IF Len(drawPile) > 0 THEN <<drawPile[Len(drawPile)]>> ELSE <<>>
        nextPlayerIndex == getNextPlayerIndex(playerIndex, Len(g.players))
        hasWinner   == \E k \in 1 .. Len(updatedPlayers) :
                           checkWinCondition(updatedPlayers[k].scoreCount, Len(g.players))
        animationHint ==
            [ sequence |-> IF isSuccess THEN "SCORE_SUCCESS" ELSE "SCORE_FAIL",
              playerId |-> player.id,
              targetPlayerId |-> "",
              affectedCardIds |-> affectedCardIds,
              color |-> Color(drawnCard),
              timestamp |-> t ]
        newGame ==
            [g EXCEPT !.players = updatedPlayers,
                      !.drawPile = drawPile,
                      !.topCardBack = topCardBack,
                      !.currentPlayerIndex = nextPlayerIndex]
        updates ==
            [newGame EXCEPT
                !.animationHint = <<animationHint>>,
                !.animationInProgress = TRUE,
                !.lastAction = << [ player |-> player.id,
                                    action |-> "score",
                                    target |-> "",
                                    result |-> IF isSuccess THEN "success" ELSE "no match",
                                    color |-> Color(drawnCard),
                                    timestamp |-> t ] >>,
                !.status = IF hasWinner THEN "finished" ELSE @,
                !.botPendingAction =
                    NextBotPending(newGame, nextPlayerIndex, t, newActionId, rnd)]
    IN  [updates |-> updates, animationHint |-> animationHint]

\* variant: the stolen cards are dropped
NewPlayerTank_Drop(tank, matchingCards, isSuccess) == tank

\* newPlayerTank of executeStealAction: the matching cards join the acting
\* player's tank
NewPlayerTank(tank, matchingCards, isSuccess) ==
    IF isSuccess THEN tank \o matchingCards ELSE tank

\* variant: the turn always advances
StealNextPlayerIndex_NoChain(playerIndex, numPlayers, isSuccess) ==
    getNextPlayerIndex(playerIndex, numPlayers)

\* nextPlayerIndex of executeStealAction: the chain steal rule
StealNextPlayerIndex(playerIndex, numPlayers, isSuccess) ==
    IF numPlayers = 2 /\ isSuccess THEN playerIndex
    ELSE getNextPlayerIndex(playerIndex, numPlayers)

executeStealAction(g, playerIndex, targetIndex, t, newActionId, rnd) ==
    LET drawPile     == SubSeq(g.drawPile, 1, Len(g.drawPile) - 1)
        drawnCard    == g.drawPile[Len(g.drawPile)]
        player       == g.players[playerIndex + 1]
        targetPlayer == g.players[targetIndex + 1]
        updatedTargetTank == Append(targetPlayer.tank, drawnCard)
        matchingCards == findMatchingCards(updatedTargetTank, Color(drawnCard))
        isSuccess    == Len(matchingCards) >= 2
        affectedCardIds == IF isSuccess THEN matchingCards ELSE <<drawnCard>>
        newPlayerTank == NewPlayerTank(player.tank, matchingCards, isSuccess)
        newTargetTank == IF isSuccess THEN WithoutCards(updatedTargetTank, matchingCards)
                         ELSE updatedTargetTank
        updatedPlayers ==
            [k \in 1 .. Len(g.players) |->
                IF k - 1 = targetIndex THEN [g.players[k] EXCEPT !.tank = newTargetTank]
                ELSE IF k - 1 = playerIndex THEN [g.players[k] EXCEPT !.tank = newPlayerTank]
                ELSE g.players[k]]
        topCardBack == IF Len(drawPile) > 0 THEN <<drawPile[Len(drawPile)]>> ELSE <<>>
        nextPlayerIndex == StealNextPlayerIndex(playerIndex, Len(g.players), isSuccess)
        animationHint ==
            [ sequence |-> IF isSuccess THEN "STEAL_SUCCESS" ELSE "STEAL_FAIL",
              playerId |-> player.id,
              targetPlayerId |-> targetPlayer.id,
              affectedCardIds |-> affectedCardIds,
              color |-> Color(drawnCard),
              timestamp |-> t ]
        newGame ==
            [g EXCEPT !.players = updatedPlayers,
                      !.drawPile = drawPile,
                      !.topCardBack = topCardBack,
                      !.currentPlayerIndex = nextPlayerIndex]
        updates ==
            [newGame EXCEPT
                !.animationHint = <<animationHint>>,
                !.animationInProgress = TRUE,
                !.lastAction = << [ player |-> player.id,
                                    action |-> "steal",
                                    target |-> targetPlayer.id,
                                    result |-> IF isSuccess THEN "success" ELSE "no match",
                                    color |-> Color(drawnCard),
                                    timestamp |-> t ] >>,
                !.botPendingAction =
                    NextBotPending(newGame, nextPlayerIndex, t, newActionId, rnd)]
    IN  [updates |-> updates, animationHint |-> animationHint]

\* variant: the top card is popped although the call throws
Fail_Popped(g, error) ==
    [ok |-> FALSE, error |-> error,
     game |-> [g EXCEPT !.drawPile = SubSeq(@, 1, Len(@) - 1)],
     animationHint |-> <<>>]

Fail(g, error) == [ok |-> FALSE, error |-> error, game |-> g, animationHint |-> <<>>]

\* variant: expiresAt is not looked at
BotActionError_NoExpiry(g, action, targetPlayerId, userId, actionId, t) ==
    IF g.botPendingAction = <<>> THEN "No pending bot action"
    ELSE LET pending == g.botPendingAction[1]
             tolerantMatch == /\ pending.botPlayerId = userId
                              /\ pending.action = action
                              /\ pending.targetPlayerId = targetPlayerId
                              /\ ~pending.consumed
         IN  IF pending.actionId # actionId /\ ~tolerantMatch THEN "Invalid bot action id"
             ELSE IF pending.consumed THEN "Bot action already consumed"
             ELSE IF pending.botPlayerId # userId THEN "Bot action not for this bot"
             ELSE IF pending.action # action
                  THEN "Requested action does not match pending bot action"
             ELSE IF pending.targetPlayerId # targetPlayerId
                  THEN "Requested target does not match pending bot action"
             ELSE ""

\* the checks of a bot execution against game.botPendingAction; "" when
\* they all pass
BotActionError(g, action, targetPlayerId, userId, actionId, t) ==
    IF g.botPendingAction = <<>> THEN "No pending bot action"
    ELSE LET pending == g.botPendingAction[1]
             tolerantMatch == /\ pending.botPlayerId = userId
                              /\ pending.action = action
                              /\ pending.targetPlayerId = targetPlayerId
                              /\ ~pending.consumed
                              /\ ~(pending.expiresAt < t)
         IN  IF pending.actionId # actionId /\ ~tolerantMatch THEN "Invalid bot action id"
             ELSE IF pending.consumed THEN "Bot action already consumed"
             ELSE IF pending.expiresAt < t THEN "Bot action expired"
             ELSE IF pending.botPlayerId # userId THEN "Bot action not for this bot"
             ELSE IF pending.action # action
                  THEN "Requested action does not match pending bot action"
             ELSE IF pending.targetPlayerId # targetPlayerId
                  THEN "Requested target does not match pending bot action"
             ELSE ""

\* variant: a regular player is not held to the turn
FindPlayer_AnyTurn(g, userId, isBot) ==
    LET playerIndex == findIndex(g.players, userId)
    IN  IF isBot
        THEN IF playerIndex = -1 THEN [error |-> "Bot not in game", index |-> -1]
             ELSE IF ~g.players[playerIndex + 1].isBot
                  THEN [error |-> "Player is not a bot", index |-> -1]
             ELSE IF g.currentPlayerIndex # playerIndex
                  THEN [error |-> "Not bot's turn", index |-> -1]
             ELSE [error |-> "", index |-> playerIndex]
        ELSE IF g.isLocalMode
        THEN IF userId = ""
             THEN [error |-> "Unauthenticated - cannot perform action in local mode",
                   index |-> -1]
             ELSE IF ~\E k \in 1 .. Len(g.players) :
                         StartsWithLocalPrefix(g.players[k].id, userId)
                  THEN [error |-> "Not authorized to perform actions in this local game",
                        index |-> -1]
             ELSE [error |-> "", index |-> g.currentPlayerIndex]
        ELSE IF playerIndex = -1 THEN [error |-> "Player not in game", index |-> -1]
             ELSE [error |-> "", index |-> playerIndex]

\* "Find player": the acting player's index, or the error
\* variant: a bot call is looked up like a player's call, the isBot flag of
\* the player is not read
FindPlayer_NoBotFlag(g, userId, isBot) ==
    LET playerIndex == findIndex(g.players, userId)
    IN  IF playerIndex = -1 THEN [error |-> "Player not in game", index |-> -1]
        ELSE IF g.currentPlayerIndex # playerIndex
        THEN [error |-> "Not your turn", index |-> -1]
        ELSE [error |-> "", index |-> playerIndex]

FindPlayer(g, userId, isBot) ==
    LET playerIndex == findIndex(g.players, userId)
    IN  IF isBot
        THEN IF playerIndex = -1 THEN [error |-> "Bot not in game", index |-> -1]
             ELSE IF ~g.players[playerIndex + 1].isBot
                  THEN [error |-> "Player is not a bot", index |-> -1]
             ELSE IF g.currentPlayerIndex # playerIndex
                  THEN [error |-> "Not bot's turn", index |-> -1]
             ELSE [error |-> "", index |-> playerIndex]
        ELSE IF g.isLocalMode
        THEN IF userId = ""
             THEN [error |-> "Unauthenticated - cannot perform action in local mode",
                   index |-> -1]
             ELSE IF ~\E k \in 1 .. Len(g.players) :
                         StartsWithLocalPrefix(g.players[k].id, userId)
                  THEN [error |-> "Not authorized to perform actions in this local game",
                        index |-> -1]
             ELSE [error |-> "", index |-> g.currentPlayerIndex]
        ELSE IF playerIndex = -1 THEN [error |-> "Player not in game", index |-> -1]
             ELSE IF g.currentPlayerIndex # playerIndex
                  THEN [error |-> "Not your turn", index |-> -1]
             ELSE [error |-> "", index |-> playerIndex]

\* "Update game state": transaction.update(gameRef, actionResult.updates); a
\* bot execution first replaces updates.botPendingAction by the pending action
\* it read, marked consumed
Commit(g, isBot, actionId, actionResult) ==
    [ ok |-> TRUE, error |-> "",
      game |-> IF isBot /\ actionId # 0
               THEN [actionResult.updates EXCEPT
                        !.botPendingAction =
                            << [g.botPendingAction[1] EXCEPT !.consumed = TRUE] >>]
               ELSE actionResult.updates,
      animationHint |-> <<actionResult.animationHint>> ]

\* variant: the acting player may be the target
Execute_SelfSteal(g, action, targetIndex, playerIndex, isBot, actionId, t, newActionId, rnd) ==
    IF Len(g.drawPile) = 0 THEN Fail(g, "Deck is empty")
    ELSE IF action = "steal" /\ targetIndex = -1
         THEN Fail(g, "Invalid target player")
    ELSE Commit(g, isBot, actionId,
                IF action = "score"
                THEN executeScoreAction(g, playerIndex, t, newActionId, rnd)
                ELSE executeStealAction(g, playerIndex, targetIndex, t, newActionId, rnd))

\* variant: the target is validated before the deck
Execute_TargetFirst(g, action, targetIndex, playerIndex, isBot, actionId, t, newActionId, rnd) ==
    IF action = "steal" /\ (targetIndex = -1 \/ targetIndex = playerIndex)
    THEN Fail(g, "Invalid target player")
    ELSE IF Len(g.drawPile) = 0 THEN Fail(g, "Deck is empty")
    ELSE Commit(g, isBot, actionId,
                IF action = "score"
                THEN executeScoreAction(g, playerIndex, t, newActionId, rnd)
                ELSE executeStealAction(g, playerIndex, targetIndex, t, newActionId, rnd))

\* "Validate deck has cards" and "Execute action"
Execute(g, action, targetIndex, playerIndex, isBot, actionId, t, newActionId, rnd) ==
    IF Len(g.drawPile) = 0 THEN Fail(g, "Deck is empty")
    ELSE IF action = "steal" /\ (targetIndex = -1 \/ targetIndex = playerIndex)
         THEN Fail(g, "Invalid target player")
    ELSE Commit(g, isBot, actionId,
                IF action = "score"
                THEN executeScoreAction(g, playerIndex, t, newActionId, rnd)
                ELSE executeStealAction(g, playerIndex, targetIndex, t, newActionId, rnd))

WithPlayer(g, action, targetPlayerId, found, isBot, actionId, t, newActionId, rnd) ==
    IF found.error # "" THEN Fail(g, found.error)
    ELSE Execute(g, action, findIndex(g.players, targetPlayerId), found.index,
                 isBot, actionId, t, newActionId, rnd)

WithBotCheck(g, action, targetPlayerId, userId, isBot, actionId, botError, t, newActionId, rnd) ==
    IF botError # "" THEN Fail(g, botError)
    ELSE WithPlayer(g, action, targetPlayerId, FindPlayer(g, userId, isBot),
                    isBot, actionId, t, newActionId, rnd)

\* the transaction body once the document was read
TransactionBody(g, action, targetPlayerId, userId, isBot, actionId, t, newActionId, rnd) ==
    WithBotCheck(g, action, targetPlayerId, userId, isBot, actionId,
                 IF isBot /\ actionId # 0
                 THEN BotActionError(g, action, targetPlayerId, userId, actionId, t)
                 ELSE "",
                 t, newActionId, rnd)

\* processAction({gameId, action, targetPlayerId, userId, isBot, actionId}):
\* g is the document games/{gameId}; RoomCode is the only one that exists
RoomCode == "ROOM"

processAction(g, req, userId, isBot, t, newActionId, rnd) ==
    IF req.gameId = "" \/ req.action = "" THEN Fail(g, "Missing required fields")
    ELSE IF req.action \notin {"score", "steal"} THEN Fail(g, "Invalid action type")
    ELSE IF req.action = "steal" /\ req.targetPlayerId = ""
         THEN Fail(g, "Target player required for steal")
    ELSE IF req.gameId # RoomCode THEN Fail(g, "Game not found")
    ELSE TransactionBody(g, req.action, req.targetPlayerId, userId, isBot,
                         req.actionId, t, newActionId, rnd)

\* exports.performAction: req.authUid = "" is a call with no context.auth
performAction(g, req, t, newActionId, rnd) ==
    LET isBotCall == req.botPlayerId # ""
        userId    == IF isBotCall THEN req.botPlayerId ELSE req.authUid
    IN  IF ~isBotCall /\ req.authUid = "" THEN Fail(g, "User must be authenticated")
        ELSE processAction(g, req, userId, isBotCall, t, newActionId, rnd)

----------------------------------------------------------------------------
(* Lobby: createGame / createLocalGame / joinGame / addBotPlayer leave a    *)
(* waiting game with its players; these are the games explored             *)

NewPlayer(id, isBot, botDifficulty) ==
    [id |-> id, tank |-> <<>>, scoreCount |-> 0, isBot |-> isBot,
     botDifficulty |-> botDifficulty]

Human(id) == NewPlayer(id, FALSE, "")

Bot(id, difficulty) == NewPlayer(id, TRUE, difficulty)

Rosters ==
    { [isLocalMode |-> FALSE, players |-> <<Human("alice"), Human("bob")>>],
      [isLocalMode |-> FALSE, players |-> <<Human("alice"), Bot("bot-1", "easy")>>],
      [isLocalMode |-> TRUE,
       players |-> <<Human("alice-local-0"), Human("alice-local-1")>>],
      [isLocalMode |-> FALSE,
       players |-> <<Human("alice"), Human("bob"), Human("carol")>>],
      [isLocalMode |-> FALSE,
       players |-> <<Human("alice"), Bot("bot-1", "medium"), Bot("bot-2", "hard")>>],
      [isLocalMode |-> FALSE,
       players |-> <<Human("alice"), Human("bob"), Human("carol"), Human("dave")>>],
      [isLocalMode |-> FALSE,
       players |-> <<Human("alice"), Human("bob"), Human("carol"), Human("dave"),
                     Human("erin")>>],
      [isLocalMode |-> FALSE,
       players |-> <<Human("alice"), Human("bob"), Human("carol"), Human("dave"),
                     Human("erin"), Human("frank")>>] }

\* createGame / createLocalGame: the new document
NewGame(roster) ==
    [ status |-> "waiting",
      currentPlayerIndex |-> 0,
      players |-> roster.players,
      drawPile |-> <<>>,
      topCardBack |-> <<>>,
      lastAction |-> <<>>,
      isLocalMode |-> roster.isLocalMode,
      animationHint |-> <<>>,
      animationInProgress |-> FALSE,
      botPendingAction |-> <<>> ]

\* the shuffle outcomes explored for a game (indices of Shuffles)
ShufflesFor(g) ==
    IF \E k \in 1 .. Len(g.players) : g.players[k].isBot THEN {1}
    ELSE IF Len(g.players) = 2 THEN {2}
    ELSE IF Len(g.players) = 3 THEN {3}
    ELSE {1}

\* startGame(gameId, game): the update computed from the caller's snapshot
StartGameUpdate(snapshot, deck) ==
    LET dealt == dealInitialHands(deck, Len(snapshot.players))
        updatedPlayers ==
            [k \in 1 .. Len(snapshot.players) |->
                [snapshot.players[k] EXCEPT !.tank = dealt.hands[k]]]
    IN  [ status |-> "playing",
          players |-> updatedPlayers,
          drawPile |-> dealt.remainingDeck,
          topCardBack |-> IF Len(dealt.remainingDeck) > 0
                          THEN <<dealt.remainingDeck[Len(dealt.remainingDeck)]>>
                          ELSE <<>>,
          currentPlayerIndex |-> 0 ]

\* updateDoc(gameRef, updateData): the fields of the update replace the
\* document's, the other fields stay
ApplyStartGame(g, u) ==
    [g EXCEPT !.status = u.status,
              !.players = u.players,
              !.drawPile = u.drawPile,
              !.topCardBack = u.topCardBack,
              !.currentPlayerIndex = u.currentPlayerIndex]

----------------------------------------------------------------------------
(* AnimationPlayer (src/utils/AnimationPlayer.js) as GameBoard builds it.    *)
(* p is the player object with the browser clock (performance.now(), ms)    *)
(* and the timers it has set; a method is an operator from p to the new p.  *)

\* the clock advances in steps that every duration is a multiple of
ClockStep == fadeMs \div 4

HintSequences == {"SCORE_SUCCESS", "SCORE_FAIL", "STEAL_SUCCESS", "STEAL_FAIL"}

\* constructor; flipStartTime, _optimisticFlipResolve and _hintResolve are
\* null; playing is the hint whose match-result animation is on screen;
\* flips numbers the optimistic flip promises, resolvedFlips are those resolved
NewPlayerState ==
    [ clock |-> 0,
      isAnimating |-> FALSE,
      flipPhase |-> "none",
      flipStartTime |-> <<>>,
      timeouts |-> {},
      timerSeq |-> 0,
      hintQueue |-> <<>>,
      serverHintQueued |-> FALSE,
      optimisticFlipResolve |-> FALSE,
      hintResolve |-> FALSE,
      playing |-> <<>>,
      completing |-> 0,
      resolvedFlips |-> {},
      flips |-> 0,
      hints |-> 0 ]

\* cleanup(): clearTimeout on every timer
cleanup(p) == [p EXCEPT !.timeouts = {}]

\* setTimeout(callback, delay) pushed on this.timeouts
setTimeout(p, kind, delay) ==
    [p EXCEPT !.timeouts = @ \cup {[kind |-> kind, due |-> p.clock + delay,
                                    seq |-> p.timerSeq]},
              !.timerSeq = @ + 1]

\* the synchronous part of complete(): state reset (flipPhase is not part of
\* the reset object), cleanup, setIsAnimating(false); the rest runs after the
\* awaited signalClientReady
complete(p) ==
    [cleanup(p) EXCEPT !.isAnimating = FALSE,
                       !.flipPhase = "none",
                       !.playing = <<>>,
                       !.completing = @ + 1]

\* complete() after its awaits: clears serverHintQueued, resolves the hint
\* promise
completeTail(p) ==
    [p EXCEPT !.completing = @ - 1,
              !.serverHintQueued = FALSE,
              !.hintResolve = FALSE]

\* playMatchResult(hint) and the play* method it dispatches to
playMatchResult(p, hint) ==
    LET q == [p EXCEPT !.playing = <<hint>>]
    IN  IF hint \in {"SCORE_SUCCESS", "STEAL_SUCCESS"}
        THEN setTimeout(setTimeout(q, "highlight", HighlightMs), "complete", SuccessMs)
        ELSE IF hint \in {"SCORE_FAIL", "STEAL_FAIL"}
        THEN setTimeout(q, "complete", FailMs)
        ELSE complete(p)

\* remaining ms of the optimistic flip timeline, as playHint computes it
Remaining(p) ==
    LET totalFlipTime == flipMs + holdMs + fadeMs
        elapsed == IF p.flipStartTime # <<>> THEN p.clock - p.flipStartTime[1] ELSE 0
    IN  IF totalFlipTime - elapsed > 0 THEN totalFlipTime - elapsed ELSE 0

queueMatchResultAfterFlip(p, hint) ==
    setTimeout([p EXCEPT !.serverHintQueued = TRUE,
                         !.hintQueue = Append(@, hint)],
               "queuedHint", Remaining(p))

playHint(p, hint) ==
    IF p.flipStartTime # <<>> /\ Remaining(p) > QueueThresholdMs
    THEN [queueMatchResultAfterFlip(p, hint) EXCEPT !.hintResolve = TRUE]
    ELSE [playMatchResult([cleanup(p) EXCEPT !.isAnimating = TRUE], hint)
             EXCEPT !.hintResolve = TRUE]

playOptimisticFlip(p) ==
    setTimeout([cleanup(p) EXCEPT !.flipStartTime = <<p.clock>>,
                                  !.isAnimating = TRUE,
                                  !.flipPhase = "half1",
                                  !.optimisticFlipResolve = TRUE],
               "fallback", flipMs + FallbackBufferMs)

notifyFlipHalf1(p) ==
    IF p.flipPhase # "half1" THEN p
    ELSE setTimeout(setTimeout([cleanup(p) EXCEPT !.flipPhase = "half2"],
                               "hold", holdMs),
                    "fade", holdMs + fadeMs)

\* the callback of a timer
TimerCallback(p, kind) ==
    IF kind = "fallback" THEN notifyFlipHalf1(p)
    ELSE IF kind = "hold" THEN [p EXCEPT !.flipPhase = "held"]
    ELSE IF kind = "fade"
         THEN [p EXCEPT !.optimisticFlipResolve = FALSE,
                        !.resolvedFlips = IF p.optimisticFlipResolve
                                          THEN @ \cup {p.flips} ELSE @]
    ELSE IF kind = "queuedHint"
         THEN IF p.hintQueue # <<>>
              THEN playMatchResult([p EXCEPT !.hintQueue = Tail(@)], Head(p.hintQueue))
              ELSE complete(p)
    ELSE IF kind = "highlight" THEN p
    ELSE complete(p)

\* the timer the browser runs next: the earliest due, the first set among
\* equals
NextTimer(p) ==
    CHOOSE t \in p.timeouts :
        \A u \in p.timeouts : t.due < u.due \/ (t.due = u.due /\ t.seq <= u.seq)

Fired(p, t) == TimerCallback([p EXCEPT !.timeouts = @ \ {t}], t.kind)

----------------------------------------------------------------------------
(* AnimationCoordinator (src/utils/AnimationCoordinator.js).  c is the       *)
(* coordinator object; runs holds the activations of _runNext that await a   *)
(* command, started and settled record the order of starts and the outcome   *)
(* of each sequence's promise.                                               *)

\* the command sequences GameBoard enqueues, and enqueue()'s default
CommandSequences ==
    { <<>>,
      <<"PLAY_SERVER_HINT">>,
      <<"SHOW_NEXT_CARD", "COMPLETE">>,
      <<"PLAY_SERVER_HINT", "VERIFY_EXPECTED_STATE", "SHOW_NEXT_CARD", "COMPLETE">> }

\* constructor; currentAbort 0 is null
NewCoordinator ==
    [ queue |-> <<>>,
      isRunning |-> FALSE,
      currentAbort |-> 0,
      runs |-> {},
      enqueued |-> 0,
      started |-> <<>>,
      settled |-> {} ]

\* item.resolve() / item.reject(err); left is what had not run
Settle(c, id, outcome, left) ==
    [c EXCEPT !.settled = @ \cup {[id |-> id, outcome |-> outcome, left |-> left]}]

IsRunning_Never(c) == FALSE

\* _runNext: if (this.isRunning) return
IsRunning(c) == c.isRunning

RECURSIVE runNext(_)

\* _runNext: finally
Finally(c) == runNext([c EXCEPT !.isRunning = FALSE, !.currentAbort = 0])

\* _runNext: the for loop from the top of an iteration to its await
RunLoop(c, id, commands, cancelled) ==
    IF commands = <<>> THEN Finally(Settle(c, id, "resolved", 0))
    ELSE IF cancelled THEN Finally(Settle(c, id, "rejected", Len(commands)))
    ELSE [c EXCEPT !.runs = @ \cup {[id |-> id, commands |-> commands,
                                     cancelled |-> FALSE]}]

\* _runNext up to its first await
runNext(c) ==
    IF IsRunning(c) THEN c
    ELSE IF c.queue = <<>> THEN c
    ELSE LET item == Head(c.queue)
         IN  RunLoop([c EXCEPT !.queue = Tail(@),
                               !.isRunning = TRUE,
                               !.currentAbort = item.id,
                               !.started = Append(@, item.id)],
                     item.id, item.commands, FALSE)

enqueue(c, commands) ==
    runNext([c EXCEPT !.enqueued = @ + 1,
                      !.queue = Append(@, [id |-> c.enqueued + 1,
                                           commands |-> commands])])

cancelCurrent(c) ==
    [c EXCEPT !.runs = {IF r.id = c.currentAbort
                        THEN [r EXCEPT !.cancelled = TRUE] ELSE r : r \in @}]

\* the awaited _runCommand of activation r returns and the loop goes on
Resume(c, r) ==
    RunLoop([c EXCEPT !.runs = @ \ {r}], r.id, Tail(r.commands), r.cancelled)

----------------------------------------------------------------------------
(* GameBoard's hint bookkeeping (src/components/GameBoard.jsx).  A hint is   *)
(* its timestamp (Date.now() of the action that made it, 0 for none).        *)
(* b holds lastSeenHintRef, the hint of the game prop, and on the way to     *)
(* the client: the responses of its own calls and the snapshots of the       *)
(* document, in order; docHint is the hint in the document.                  *)

NewBoard ==
    [ lastSeenHint |-> 0,
      gameHint |-> 0,
      enqueuedHints |-> <<>>,
      docHint |-> 0,
      responses |-> {},
      snapshots |-> <<>>,
      received |-> 0 ]

\* the effect on game.animationHint: only a hint newer than the last seen
\* one is enqueued
HintEffectEnqueues(b, hint) == hint # 0 /\ hint > b.lastSeenHint

HintEffect(b, hint) ==
    IF HintEffectEnqueues(b, hint)
    THEN [b EXCEPT !.lastSeenHint = hint, !.enqueuedHints = Append(@, hint)]
    ELSE b

\* handleScoreClick / handleTargetSelect after the call returned a hint
HintResponse(b, hint) ==
    [b EXCEPT !.lastSeenHint = hint, !.enqueuedHints = Append(@, hint)]

----------------------------------------------------------------------------
(* GameBoard's click handlers and useGameState's state *)

\* the async click handlers that have started a flip: flip is the promise a
\* handler awaits, stage is where it stands; modal is showActionModal;
\* awaitedFlip is the flip promise START_OPTIMISTIC_FLIP awaits, deadline is
\* when the coordinator's wait on complete() times out
NewUi ==
    [ handlers |-> {},
      modal |-> FALSE,
      clicks |-> 0,
      awaitedFlip |-> 0,
      deadline |-> 0 ]

\* useState(null) for game and pendingUpdate, useState(false) for isAnimating;
\* closure is the game the onSnapshot callback closed over when the effect
\* on [gameId] subscribed
NewHook ==
    [ game |-> <<>>,
      pendingUpdate |-> <<>>,
      isAnimating |-> FALSE,
      subscribed |-> FALSE,
      closure |-> <<>>,
      inbox |-> <<>>,
      received |-> 0,
      op |-> "none",
      result |-> FALSE ]

ALLOW_SERVER_OVERWRITE == FALSE

\* an array element that is null: reading its .id throws
NullCard == -1

TopCardId(g) == IF Len(g.drawPile) > 0 THEN <<g.drawPile[Len(g.drawPile)]>> ELSE <<>>

\* compareGameState reads .id of the top card and of every tank card
CompareThrows(g) ==
    \/ TopCardId(g) = <<NullCard>>
    \/ \E k \in 1 .. Len(g.players) :
           \E i \in 1 .. Len(g.players[k].tank) : g.players[k].tank[i] = NullCard

\* variant: every pair of tanks is reported
PlayerDiffs_Always(clientState, serverState, k) ==
    {[kind |-> "tankMismatch", index |-> k - 1]}

PlayerDiffs(clientState, serverState, k) ==
    IF k > Len(clientState.players) \/ k > Len(serverState.players)
    THEN {[kind |-> "playerCountMismatch", index |-> k - 1]}
    ELSE (IF clientState.players[k].scoreCount # serverState.players[k].scoreCount
          THEN {[kind |-> "scoreMismatch", index |-> k - 1]} ELSE {})
         \cup
         \* the ids of the tank joined by ',': card ids hold no comma and are
         \* never empty, so the strings are equal exactly when the id lists are
         (IF clientState.players[k].tank # serverState.players[k].tank
          THEN {[kind |-> "tankMismatch", index |-> k - 1]} ELSE {})

\* compareGameState(clientState, serverState): the set of diffs; the two are
\* null (<<>>) or a game
compareGameState(clientState, serverState) ==
    IF clientState = <<>> \/ serverState = <<>>
    THEN {[kind |-> "missingState", index |-> -1]}
    ELSE LET c == clientState[1]
             v == serverState[1]
             len == IF Len(c.players) > Len(v.players) THEN Len(c.players)
                    ELSE Len(v.players)
         IN  (IF Len(c.drawPile) # Len(v.drawPile)
              THEN {[kind |-> "drawPileLength", index |-> -1]} ELSE {})
             \cup
             (IF TopCardId(c) # TopCardId(v)
              THEN {[kind |-> "topCardDifferent", index |-> -1]} ELSE {})
             \cup
             (IF c.currentPlayerIndex # v.currentPlayerIndex
              THEN {[kind |-> "turnMismatch", index |-> -1]} ELSE {})
             \cup
             UNION {PlayerDiffs(c, v, k) : k \in 1 .. len}

CompareFn_NoDiffs(clientState, serverState) == {}

\* the compareFn GameBoard and the coordinator pass to applyPendingUpdate:
\* compareGameState inside try/catch
CompareFn(clientState, serverState) ==
    IF \E g \in {clientState, serverState} : g # <<>> /\ CompareThrows(g[1])
    THEN {[kind |-> "compareError", index |-> -1]}
    ELSE compareGameState(clientState, serverState)

onSnapshot_Current(h, newGameState) ==
    LET r == [h EXCEPT !.received = @ + 1, !.op = "snapshot"]
    IN  IF h.game = <<>>
        THEN [r EXCEPT !.game = <<newGameState>>]
        ELSE IF compareGameState(h.game, <<newGameState>>) # {}
        THEN [r EXCEPT !.pendingUpdate = <<newGameState>>]
        ELSE r

\* the onSnapshot callback of the subscription; game is the value the
\* callback closed over when the effect ran
onSnapshot(h, newGameState) ==
    LET r == [h EXCEPT !.received = @ + 1, !.op = "snapshot"]
    IN  IF h.closure = <<>>
        THEN [r EXCEPT !.game = <<newGameState>>]
        ELSE IF compareGameState(h.closure, <<newGameState>>) # {}
        THEN [r EXCEPT !.pendingUpdate = <<newGameState>>]
        ELSE IF ALLOW_SERVER_OVERWRITE
        THEN [r EXCEPT !.game = <<newGameState>>]
        ELSE r

\* applyPendingUpdate(compareFn) with the compareFn above; result is its
\* return value
applyPendingUpdate(h) ==
    LET r == [h EXCEPT !.op = "apply"]
    IN  IF h.pendingUpdate = <<>> THEN [r EXCEPT !.result = FALSE]
        ELSE IF CompareFn(h.game, h.pendingUpdate) # {}
        THEN [r EXCEPT !.result = FALSE]
        ELSE [r EXCEPT !.game = h.pendingUpdate, !.pendingUpdate = <<>>,
                       !.result = TRUE]

\* the command whose _runCommand was called in the step from c to c2
StartedCommand(c, c2) ==
    IF c2.runs \ c.runs = {} THEN "none"
    ELSE Head((CHOOSE r \in c2.runs \ c.runs : TRUE).commands)

\* _runCommand up to its await, on the player
RunCommand(p, command, hint) ==
    IF command = "PLAY_SERVER_HINT" THEN playHint(p, hint)
    ELSE IF command = "COMPLETE" THEN complete(p)
    ELSE p

\* _runCommand up to its await, on what the coordinator waits for
AwaitCommand(u, p, command) ==
    IF command = "START_OPTIMISTIC_FLIP" THEN [u EXCEPT !.awaitedFlip = p.flips]
    ELSE IF command = "COMPLETE" THEN [u EXCEPT !.deadline = p.clock + defaultTimeout]
    ELSE u

\* the promise the running command awaits has settled
CommandSettled(u, p, command) ==
    IF command = "PLAY_SERVER_HINT" THEN ~p.hintResolve
    ELSE IF command = "START_OPTIMISTIC_FLIP" THEN u.awaitedFlip \in p.resolvedFlips
    ELSE IF command = "COMPLETE" THEN p.completing = 0 \/ p.clock >= u.deadline
    ELSE TRUE

----------------------------------------------------------------------------
(* State machine *)

\* successful actions since the deal
ActionsDone(g) == DeckSize - DealCount * Len(g.players) - Len(g.drawPile)

HasBots(g) == \E k \in 1 .. Len(g.players) : g.players[k].isBot

ActionBound(g) ==
    (IF HasBots(g) \/ g.isLocalMode \/ Len(g.players) > 3 THEN MaxActionsOther
     ELSE IF Len(g.players) = 2 THEN MaxActionsTwo
     ELSE MaxActionsThree)
    + (IF g.status = "finished" THEN MaxAfterFinish ELSE 0)

StaleActionId == -1

PlayerIds(g) == {g.players[k].id : k \in 1 .. Len(g.players)}

\* the callers explored: every player, the local controller, a stranger and
\* an unauthenticated caller
AuthUids(g) ==
    {g.players[k].id : k \in {m \in 1 .. Len(g.players) : ~g.players[m].isBot}}
    \cup {"alice", "mallory", ""}

\* the botPlayerId values explored: every bot, the current player and an id
\* that is not in the game
BotPlayerIds(g) ==
    {g.players[k].id : k \in {m \in 1 .. Len(g.players) : g.players[m].isBot}}
    \cup {g.players[g.currentPlayerIndex + 1].id, "ghost"}

ActionIds(g) ==
    {0, StaleActionId} \cup
    (IF g.botPendingAction = <<>> THEN {} ELSE {g.botPendingAction[1].actionId})

Requests(g) ==
    LET targets(action) == IF action = "score" THEN {""}
                           ELSE PlayerIds(g) \cup {"ghost"}
        wellFormed(action) ==
            [gameId : {RoomCode}, action : {action}, targetPlayerId : targets(action),
             botPlayerId : {""}, actionId : {0}, authUid : AuthUids(g)]
            \cup
            [gameId : {RoomCode}, action : {action}, targetPlayerId : targets(action),
             botPlayerId : BotPlayerIds(g), actionId : ActionIds(g),
             authUid : {""}]
        malformed ==
            [gameId : {"NOPE", ""}, action : {"score"}, targetPlayerId : {""},
             botPlayerId : {""}, actionId : {0}, authUid : {"alice"}]
            \cup
            [gameId : {RoomCode}, action : {"", "dance"}, targetPlayerId : {""},
             botPlayerId : {""}, actionId : {0}, authUid : {"alice"}]
            \cup
            [gameId : {RoomCode}, action : {"steal"}, targetPlayerId : {""},
             botPlayerId : {""}, actionId : {0}, authUid : {"alice"}]
    IN  wellFormed("score") \cup wellFormed("steal") \cup malformed

\* Math.random() matters only to the easy strategy
RandomDrawsFor(g) ==
    IF \E k \in 1 .. Len(g.players) : g.players[k].botDifficulty = "easy"
    THEN RandomDraws
    ELSE {[low |-> TRUE, pick |-> 0]}

NoResponse == [ok |-> FALSE, animationHint |-> <<>>]

\* no transaction in flight, none committed
NoTx == [version |-> 0, inflight |-> <<>>, drawn |-> <<>>]

\* the actionId of the pending bot action that the call returning r marked
\* consumed, if it did
NewlyConsumed(g, r) ==
    IF /\ r.ok
       /\ g.botPendingAction # <<>>
       /\ ~g.botPendingAction[1].consumed
       /\ r.game.botPendingAction = << [g.botPendingAction[1] EXCEPT !.consumed = TRUE] >>
    THEN {g.botPendingAction[1].actionId}
    ELSE {}

Init ==
    /\ game \in {NewGame(r) : r \in Rosters}
    /\ now = 0
    /\ idCounter = 0
    /\ response = NoResponse
    /\ pendingStarts = <<>>
    /\ pendingTriggers = <<>>
    /\ consumedIds = {}
    /\ tx = NoTx
    /\ animationPlayer = NewPlayerState
    /\ coordinator = NewCoordinator
    /\ board = NewBoard
    /\ ui = NewUi
    /\ hook = NewHook
    /\ botCall = NewBot

\* the host presses Start (or the local waiting room's effect runs): the
\* client shuffles, deals from its snapshot of the waiting game and sends the
\* update
StartGameCall ==
    /\ game.status = "waiting"
    /\ Len(game.players) >= 2
    /\ Len(pendingStarts) < MaxStartCalls
    /\ \E d \in ShufflesFor(game) :
           pendingStarts' = Append(pendingStarts, StartGameUpdate(game, Shuffles[d]))
    /\ UNCHANGED <<game, now, idCounter, response, pendingTriggers, consumedIds, aside>>

\* the updateDoc of a startGame call lands
StartGameWrite ==
    /\ \E i \in 1 .. Len(pendingStarts) :
           /\ game' = ApplyStartGame(game, pendingStarts[i])
           /\ pendingStarts' = SubSeq(pendingStarts, 1, i - 1)
                                 \o SubSeq(pendingStarts, i + 1, Len(pendingStarts))
    /\ UNCHANGED <<now, idCounter, response, pendingTriggers, consumedIds, aside>>

\* the call returned r: its transaction committed r.game or, when a check
\* threw, wrote nothing (r.game is then the document as read)
Returned(r) ==
    /\ r.ok => ActionsDone(game) < ActionBound(game)
    /\ game' = r.game
    /\ idCounter' =
           IF /\ r.ok
              /\ r.game.botPendingAction # <<>>
              /\ r.game.botPendingAction[1].actionId = idCounter + 1
           THEN idCounter + 1 ELSE idCounter
    /\ response' = [ok |-> r.ok, animationHint |-> r.animationHint]
    /\ consumedIds' = consumedIds \cup NewlyConsumed(game, r)

\* a performAction call runs
PerformAction ==
    /\ \E req \in Requests(game), rnd \in RandomDrawsFor(game) :
          Returned(performAction(game, req, now, idCounter + 1, rnd))
    /\ UNCHANGED <<now, pendingStarts, pendingTriggers, aside>>

\* time passes on the server: long enough for the live pending bot action to
\* expire
Tick ==
    /\ now + BotActionTTL + 1 <= MaxTime
    /\ game.botPendingAction # <<>>
    /\ ~game.botPendingAction[1].consumed
    /\ now' = now + BotActionTTL + 1
    /\ UNCHANGED <<game, idCounter, response, pendingStarts, pendingTriggers, consumedIds, aside>>

\* processBotTurn runs on the document as updated (after = game) and computes
\* its update
ProcessBotTurnRun ==
    /\ Len(pendingTriggers) < MaxTriggers
    /\ game.status = "playing"
    /\ ~(/\ game.botPendingAction # <<>>
         /\ ~game.botPendingAction[1].consumed
         /\ game.botPendingAction[1].expiresAt > now)
    /\ game.currentPlayerIndex + 1 \in DOMAIN game.players
    /\ game.players[game.currentPlayerIndex + 1].isBot
    /\ \E rnd \in RandomDrawsFor(game) :
           pendingTriggers' =
               Append(pendingTriggers,
                      ComputePendingAction(game, game.currentPlayerIndex, now,
                                           idCounter + 1, rnd))
    /\ idCounter' = idCounter + 1
    /\ UNCHANGED <<game, now, response, pendingStarts, consumedIds, aside>>

\* the trigger's update({botPendingAction}) lands
ProcessBotTurnWrite ==
    /\ pendingTriggers # <<>>
    /\ game' = [game EXCEPT !.botPendingAction = Head(pendingTriggers)]
    /\ pendingTriggers' = Tail(pendingTriggers)
    /\ UNCHANGED <<now, idCounter, response, pendingStarts, consumedIds, aside>>

Next ==
    \/ StartGameCall
    \/ StartGameWrite
    \/ PerformAction
    \/ Tick
    \/ ProcessBotTurnRun
    \/ ProcessBotTurnWrite

Spec == Init /\ [][Next]_vars

----------------------------------------------------------------------------
(* Concurrent calls: db.runTransaction in processAction.  A transaction     *)
(* reads the document (transaction.get), runs the callback on what it read  *)
(* and commits its update only if the document has not been written since   *)
(* the read; otherwise the callback is run again on a fresh read.  A        *)
(* callback that throws aborts the transaction.                             *)

\* the games the concurrent calls are explored on, just dealt
TxRosters == {r \in Rosters : Len(r.players) <= 3 /\ ~r.isLocalMode}

StartedGame(roster, deck) ==
    ApplyStartGame(NewGame(roster), StartGameUpdate(NewGame(roster), deck))

\* the calls explored: score and steal by every player of the game, and the
\* bot execution of the pending action
TxRequests(g) ==
    {req \in Requests(g) :
        /\ req.gameId = RoomCode
        /\ req.action \in {"score", "steal"}
        /\ (req.action = "steal" => req.targetPlayerId \in PlayerIds(g))
        /\ IF req.botPlayerId = "" THEN req.authUid \in PlayerIds(g)
           ELSE req.botPlayerId \in PlayerIds(g) /\ req.actionId > 0}

\* transaction.get: what a callback run works on
TxRead(req, rnd, attempt) ==
    [req |-> req, rnd |-> rnd, read |-> game, version |-> tx.version,
     attempt |-> attempt]

RemoveAt(s, i) == SubSeq(s, 1, i - 1) \o SubSeq(s, i + 1, Len(s))

\* what the callback of transaction t computes from the document it read
TxResult(t) == performAction(t.read, t.req, now, idCounter + 1, t.rnd)

\* the commit is accepted when nothing was written since the read
CanCommit_Always(t, version) == TRUE

CanCommit(t, version) == t.version = version

InitTx ==
    /\ game \in UNION {{StartedGame(r, Shuffles[d]) : d \in ShufflesFor(NewGame(r))} :
                           r \in TxRosters}
    /\ now = 0
    /\ idCounter = 0
    /\ response = NoResponse
    /\ pendingStarts = <<>>
    /\ pendingTriggers = <<>>
    /\ consumedIds = {}
    /\ tx = NoTx
    /\ animationPlayer = NewPlayerState
    /\ coordinator = NewCoordinator
    /\ board = NewBoard
    /\ ui = NewUi
    /\ hook = NewHook
    /\ botCall = NewBot

\* a call arrives and its transaction reads the document
TxBegin ==
    /\ Len(tx.inflight) < MaxInflight
    /\ tx.version < MaxTxCommits
    /\ \E req \in TxRequests(game), rnd \in RandomDrawsFor(game) :
           tx' = [tx EXCEPT !.inflight = Append(@, TxRead(req, rnd, 1))]
    /\ UNCHANGED <<game, now, idCounter, response, pendingStarts, pendingTriggers,
                   consumedIds, clients>>

\* the callback threw on what it read: the transaction is abandoned and the
\* call fails
TxAbort ==
    /\ \E i \in 1 .. Len(tx.inflight) :
           /\ ~TxResult(tx.inflight[i]).ok
           /\ tx' = [tx EXCEPT !.inflight = RemoveAt(@, i)]
    /\ response' = NoResponse
    /\ UNCHANGED <<game, now, idCounter, pendingStarts, pendingTriggers, consumedIds,
                   clients>>

\* the document was written since the read: the callback runs again on a
\* fresh read
TxRetry ==
    /\ \E i \in 1 .. Len(tx.inflight) :
           /\ TxResult(tx.inflight[i]).ok
           /\ ~CanCommit(tx.inflight[i], tx.version)
           /\ tx' = [tx EXCEPT
                        !.inflight[i] = TxRead(tx.inflight[i].req, tx.inflight[i].rnd,
                                               tx.inflight[i].attempt + 1)]
    /\ UNCHANGED <<game, now, idCounter, response, pendingStarts, pendingTriggers,
                   consumedIds, clients>>

Committed(t, i, r) ==
    /\ r.ok
    /\ game' = r.game
    /\ idCounter' = idCounter + 1
    /\ response' = [ok |-> TRUE, animationHint |-> r.animationHint]
    /\ consumedIds' = consumedIds \cup NewlyConsumed(t.read, r)
    /\ tx' = [version |-> tx.version + 1,
              inflight |-> RemoveAt(tx.inflight, i),
              drawn |-> Append(tx.drawn, t.read.drawPile[Len(t.read.drawPile)])]

\* transaction.update commits
TxCommit ==
    /\ \E i \in 1 .. Len(tx.inflight) :
           /\ CanCommit(tx.inflight[i], tx.version)
           /\ Committed(tx.inflight[i], i, TxResult(tx.inflight[i]))
    /\ UNCHANGED <<now, pendingStarts, pendingTriggers, clients>>

NextTx ==
    \/ TxBegin
    \/ TxAbort
    \/ TxRetry
    \/ TxCommit

SpecTx == InitTx /\ [][NextTx]_vars

----------------------------------------------------------------------------
(* One client's animation player over time *)

InitAnim ==
    /\ game = NewGame(CHOOSE r \in Rosters : Len(r.players) = 6)
    /\ now = 0
    /\ idCounter = 0
    /\ response = NoResponse
    /\ pendingStarts = <<>>
    /\ pendingTriggers = <<>>
    /\ consumedIds = {}
    /\ tx = NoTx
    /\ animationPlayer = NewPlayerState
    /\ coordinator = NewCoordinator
    /\ board = NewBoard
    /\ ui = NewUi
    /\ hook = NewHook
    /\ botCall = NewBot

\* handleScoreClick / handleTargetSelect start the optimistic flip; the Score
\* and Steal buttons do nothing while animationState.isAnimating
StartFlip ==
    /\ ~animationPlayer.isAnimating
    /\ animationPlayer.flips < MaxFlips
    /\ animationPlayer' = [playOptimisticFlip(animationPlayer) EXCEPT !.flips = @ + 1]
    /\ UNCHANGED <<server, tx, botCall, ui, hook, coordinator, board>>

\* handleFlipAnimationEnd: the first-half CSS animation (flipMs / 2) has ended
AnimationEnd ==
    /\ animationPlayer.flipPhase = "half1"
    /\ animationPlayer.clock >= animationPlayer.flipStartTime[1] + flipMs \div 2
    /\ animationPlayer' = notifyFlipHalf1(animationPlayer)
    /\ UNCHANGED <<server, tx, botCall, ui, hook, coordinator, board>>

\* a timer that is due runs
TimerFires ==
    /\ animationPlayer.timeouts # {}
    /\ NextTimer(animationPlayer).due <= animationPlayer.clock
    /\ animationPlayer' = Fired(animationPlayer, NextTimer(animationPlayer))
    /\ UNCHANGED <<server, tx, botCall, ui, hook, coordinator, board>>

\* time passes while no timer is due; the clock explored stops at MaxClock
\* once no timer is left to run
ClockAdvance ==
    /\ animationPlayer.clock + ClockStep <= MaxClock \/ animationPlayer.timeouts # {}
    /\ \A t \in animationPlayer.timeouts : t.due > animationPlayer.clock
    /\ animationPlayer' = [animationPlayer EXCEPT !.clock = @ + ClockStep]
    /\ UNCHANGED <<server, tx, botCall, ui, hook, coordinator, board>>

\* PLAY_SERVER_HINT: the coordinator hands a server hint to playHint; it
\* awaits the returned promise before it hands over another
HintArrives ==
    /\ ~animationPlayer.hintResolve
    /\ animationPlayer.hints < MaxHints
    /\ \E hint \in HintSequences :
           animationPlayer' = [playHint(animationPlayer, hint) EXCEPT !.hints = @ + 1]
    /\ UNCHANGED <<server, tx, botCall, ui, hook, coordinator, board>>

\* complete() resumes after signalClientReady
CompleteResumes ==
    /\ animationPlayer.completing > 0
    /\ animationPlayer' = completeTail(animationPlayer)
    /\ UNCHANGED <<server, tx, botCall, ui, hook, coordinator, board>>

NextAnim ==
    \/ StartFlip
    \/ AnimationEnd
    \/ TimerFires
    \/ ClockAdvance
    \/ HintArrives
    \/ CompleteResumes

SpecAnim == InitAnim /\ [][NextAnim]_vars

----------------------------------------------------------------------------
(* One client's coordinator *)

InitCoord == InitAnim

Enqueue ==
    /\ coordinator.enqueued < MaxSequences
    /\ \E commands \in CommandSequences :
           coordinator' = enqueue(coordinator, commands)
    /\ UNCHANGED <<server, tx, botCall, ui, hook, animationPlayer, board>>

CommandReturns ==
    /\ \E r \in coordinator.runs : coordinator' = Resume(coordinator, r)
    /\ UNCHANGED <<server, tx, botCall, ui, hook, animationPlayer, board>>

CancelCurrent ==
    /\ coordinator.currentAbort # 0
    /\ coordinator' = cancelCurrent(coordinator)
    /\ coordinator' # coordinator
    /\ UNCHANGED <<server, tx, botCall, ui, hook, animationPlayer, board>>

NextCoord ==
    \/ Enqueue
    \/ CommandReturns
    \/ CancelCurrent

SpecCoord == InitCoord /\ [][NextCoord]_vars

----------------------------------------------------------------------------
(* One client's GameBoard, the document's hints and their delivery *)

InitBoard == InitAnim

\* the processAction of this client's own score or steal commits: the hint is
\* in the document and in the call's response
OwnAction ==
    /\ board.docHint < MaxHintsIssued
    /\ board.responses = {}
    /\ Len(board.snapshots) + board.received < MaxSnapshots
    /\ board' = [board EXCEPT !.docHint = @ + 1,
                              !.responses = @ \cup {board.docHint + 1},
                              !.snapshots = Append(@, board.docHint + 1)]
    /\ UNCHANGED <<server, tx, botCall, ui, hook, animationPlayer, coordinator>>

\* another player's or a bot's action commits
OtherAction ==
    /\ board.docHint < MaxHintsIssued
    /\ Len(board.snapshots) + board.received < MaxSnapshots
    /\ board' = [board EXCEPT !.docHint = @ + 1,
                              !.snapshots = Append(@, board.docHint + 1)]
    /\ UNCHANGED <<server, tx, botCall, ui, hook, animationPlayer, coordinator>>

\* another field of the document changes (an emoji): the snapshot carries the
\* same hint again
OtherUpdate ==
    /\ Len(board.snapshots) + board.received < MaxSnapshots
    /\ board' = [board EXCEPT !.snapshots = Append(@, board.docHint)]
    /\ UNCHANGED <<server, tx, botCall, ui, hook, animationPlayer, coordinator>>

\* onSnapshot: the snapshot becomes the game prop and the hint effect runs
SnapshotArrives ==
    /\ board.snapshots # <<>>
    /\ LET hint == Head(board.snapshots)
       IN  /\ board' = [HintEffect(board, hint) EXCEPT !.gameHint = hint,
                                                       !.snapshots = Tail(@),
                                                       !.received = @ + 1]
           /\ coordinator' = IF HintEffectEnqueues(board, hint)
                             THEN enqueue(coordinator, <<"PLAY_SERVER_HINT">>)
                             ELSE coordinator
    /\ UNCHANGED <<server, tx, botCall, ui, hook, animationPlayer>>

\* the call returns with result.animationHint
ResponseArrives ==
    /\ \E hint \in board.responses :
           board' = [HintResponse(board, hint) EXCEPT !.responses = @ \ {hint}]
    /\ coordinator' = enqueue(coordinator,
           <<"PLAY_SERVER_HINT", "VERIFY_EXPECTED_STATE", "SHOW_NEXT_CARD", "COMPLETE">>)
    /\ UNCHANGED <<server, tx, botCall, ui, hook, animationPlayer>>

NextBoard ==
    \/ OwnAction
    \/ OtherAction
    \/ OtherUpdate
    \/ SnapshotArrives
    \/ ResponseArrives
    \/ CommandReturns

SpecBoard == InitBoard /\ [][NextBoard]_vars

----------------------------------------------------------------------------
(* One client of a local-mode game of human players: GameBoard's handlers,  *)
(* its coordinator and its player together.  The current player is always   *)
(* one of the client's users, so the Score and Steal buttons are disabled   *)
(* only by animationState.isAnimating.                                      *)

InitClient == InitAnim

\* the hints of this client's actions: one with a highlight phase, one without
ClientHints == {"SCORE_SUCCESS", "STEAL_FAIL"}

\* the coordinator becomes c2; the command it has started acts on player p
\* and on what the coordinator awaits
Coordinated(c2, p, u) ==
    /\ coordinator' = c2
    /\ \E hint \in IF StartedCommand(coordinator, c2) = "PLAY_SERVER_HINT"
                     THEN ClientHints ELSE {"none"} :
           animationPlayer' = RunCommand(p, StartedCommand(coordinator, c2), hint)
    /\ ui' = AwaitCommand(u, p, StartedCommand(coordinator, c2))

\* handleScoreClick up to its await of startOptimisticFlipImmediate; the
\* open modal's overlay covers the buttons
ScoreClick ==
    /\ ~animationPlayer.isAnimating
    /\ ~ui.modal
    /\ ui.clicks < MaxClicks
    /\ animationPlayer' = [playOptimisticFlip(animationPlayer) EXCEPT !.flips = @ + 1]
    /\ ui' = [ui EXCEPT !.clicks = @ + 1,
                        !.handlers = @ \cup {[flip |-> animationPlayer.flips + 1,
                                              stage |-> "flip"]}]
    /\ UNCHANGED <<server, tx, botCall, coordinator, board, hook>>

\* handleStealClick
StealClick ==
    /\ ~animationPlayer.isAnimating
    /\ ~ui.modal
    /\ ui.clicks < MaxClicks
    /\ ui' = [ui EXCEPT !.modal = TRUE]
    /\ UNCHANGED <<server, tx, botCall, animationPlayer, coordinator, board, hook>>

\* handleTargetSelect up to its await of startOptimisticFlipImmediate
TargetSelect ==
    /\ ui.modal
    /\ animationPlayer' = [playOptimisticFlip(animationPlayer) EXCEPT !.flips = @ + 1]
    /\ ui' = [ui EXCEPT !.modal = FALSE,
                        !.clicks = @ + 1,
                        !.handlers = @ \cup {[flip |-> animationPlayer.flips + 1,
                                              stage |-> "flip"]}]
    /\ UNCHANGED <<server, tx, botCall, coordinator, board, hook>>

\* the flip promise a handler awaits has resolved: startOptimisticFlip
\* enqueues START_OPTIMISTIC_FLIP and the call is sent
HandlerResumes ==
    /\ \E h \in ui.handlers :
           /\ h.stage = "flip"
           /\ h.flip \in animationPlayer.resolvedFlips
           /\ Coordinated(enqueue(coordinator, <<"START_OPTIMISTIC_FLIP">>),
                          animationPlayer,
                          [ui EXCEPT !.handlers = (@ \ {h}) \cup
                                         {[h EXCEPT !.stage = "call"]}])
    /\ UNCHANGED <<server, tx, botCall, board, hook>>

\* the call's processAction commits: the hint is in the document and in the
\* response
CallCommits ==
    /\ \E h \in ui.handlers :
           /\ h.stage = "call"
           /\ ui' = [ui EXCEPT !.handlers = @ \ {h}]
    /\ board.docHint < MaxHintsIssued
    /\ board' = [board EXCEPT !.docHint = @ + 1,
                              !.responses = @ \cup {board.docHint + 1},
                              !.snapshots = Append(@, board.docHint + 1)]
    /\ UNCHANGED <<server, tx, botCall, animationPlayer, coordinator, hook>>

\* onSnapshot: the game prop changes and the hint effect runs
ClientSnapshot ==
    /\ board.snapshots # <<>>
    /\ LET hint == Head(board.snapshots)
       IN  /\ board' = [HintEffect(board, hint) EXCEPT !.gameHint = hint,
                                                       !.snapshots = Tail(@),
                                                       !.received = @ + 1]
           /\ Coordinated(IF HintEffectEnqueues(board, hint)
                          THEN enqueue(coordinator, <<"PLAY_SERVER_HINT">>)
                          ELSE coordinator,
                          animationPlayer, ui)
    /\ UNCHANGED <<server, tx, botCall, hook>>

\* the handler receives result.animationHint
ClientResponse ==
    /\ \E hint \in board.responses :
           board' = [HintResponse(board, hint) EXCEPT !.responses = @ \ {hint}]
    /\ Coordinated(enqueue(coordinator,
                       <<"PLAY_SERVER_HINT", "VERIFY_EXPECTED_STATE",
                         "SHOW_NEXT_CARD", "COMPLETE">>),
                   animationPlayer, ui)
    /\ UNCHANGED <<server, tx, botCall, hook>>

\* the promise the running command awaits has settled and _runNext goes on
ClientCommandReturns ==
    /\ \E r \in coordinator.runs :
           /\ CommandSettled(ui, animationPlayer, Head(r.commands))
           /\ Coordinated(Resume(coordinator, r), animationPlayer, ui)
    /\ UNCHANGED <<server, tx, botCall, board, hook>>

\* the instants at which something is due: a timer, or the end of the
\* first-half CSS animation
Instants(p) ==
    {t.due : t \in p.timeouts}
        \cup (IF p.flipPhase = "half1" THEN {p.flipStartTime[1] + flipMs \div 2} ELSE {})

\* time passes up to the next instant at which something is due; with
\* nothing due, for as long as a whole flip timeline
ClientClockAdvance ==
    /\ \A t \in animationPlayer.timeouts : t.due > animationPlayer.clock
    /\ LET later == {i \in Instants(animationPlayer) : i > animationPlayer.clock}
       IN  IF later # {}
           THEN animationPlayer' =
                    [animationPlayer EXCEPT !.clock =
                         CHOOSE i \in later : \A j \in later : i <= j]
           ELSE /\ animationPlayer.clock + flipMs + holdMs + fadeMs <= MaxClock
                /\ animationPlayer' =
                       [animationPlayer EXCEPT !.clock = @ + flipMs + holdMs + fadeMs]
    /\ UNCHANGED <<server, tx, botCall, coordinator, board, ui, hook>>

NextClient ==
    \/ ScoreClick
    \/ StealClick
    \/ TargetSelect
    \/ HandlerResumes
    \/ CallCommits
    \/ ClientSnapshot
    \/ ClientResponse
    \/ ClientCommandReturns
    \/ AnimationEnd
    \/ TimerFires
    \/ ClientClockAdvance
    \/ CompleteResumes

SpecClient == InitClient /\ [][NextClient]_vars

----------------------------------------------------------------------------
(* One client's coordinator driving its player, with the scheduling the     *)
(* browser gives: a due timer runs, time passes, an awaited promise that    *)
(* has settled resumes its awaiter.  Clicks, enqueues and the animationend  *)
(* event may or may not happen.                                             *)

InitQueue == InitAnim

\* a sequence is enqueued; an idle coordinator starts its first command
SequenceEnqueued ==
    /\ coordinator.enqueued < MaxSequences
    /\ \E commands \in CommandSequences :
           Coordinated(enqueue(coordinator, commands), animationPlayer, ui)
    /\ UNCHANGED <<server, tx, botCall, board, hook>>

NextQueue ==
    \/ SequenceEnqueued
    \/ ClientCommandReturns
    \/ StartFlip
    \/ AnimationEnd
    \/ TimerFires
    \/ ClientClockAdvance
    \/ CompleteResumes

SpecQueue ==
    /\ InitQueue
    /\ [][NextQueue]_vars
    /\ WF_vars(ClientCommandReturns)
    /\ WF_vars(TimerFires)
    /\ WF_vars(ClientClockAdvance)
    /\ WF_vars(CompleteResumes)

----------------------------------------------------------------------------
(* useGameState as App uses it: gameId is set once, from the lobby, so the  *)
(* subscription effect runs once, while game is still null.  The server     *)
(* commits actions; every commit is delivered to the subscriber in order.   *)

HookRosters == {r \in Rosters : Len(r.players) = 2 /\ ~r.isLocalMode}

HookGames ==
    UNION {{StartedGame(r, Shuffles[d]) : d \in ShufflesFor(NewGame(r))} :
               r \in HookRosters}

InitHook ==
    /\ game \in HookGames
    /\ now = 0
    /\ idCounter = 0
    /\ response = NoResponse
    /\ pendingStarts = <<>>
    /\ pendingTriggers = <<>>
    /\ consumedIds = {}
    /\ tx = NoTx
    /\ animationPlayer = NewPlayerState
    /\ coordinator = NewCoordinator
    /\ board = NewBoard
    /\ ui = NewUi
    /\ hook = NewHook
    /\ botCall = NewBot

\* the effect of useGameState runs for the gameId: onSnapshot is registered
\* with a callback that closes over the game of this render; the first
\* snapshot is the document as it is
HookSubscribe ==
    /\ ~hook.subscribed
    /\ hook' = [hook EXCEPT !.subscribed = TRUE, !.closure = hook.game,
                            !.inbox = <<game>>, !.op = "subscribe"]
    /\ UNCHANGED <<server, tx, botCall, animationPlayer, coordinator, board, ui>>

\* a score or steal commits on the server and its snapshot is sent
ActionCommitted ==
    /\ hook.subscribed
    /\ ActionsDone(game) < MaxCommitted
    /\ \E req \in TxRequests(game), rnd \in RandomDrawsFor(game) :
           LET r == performAction(game, req, now, idCounter + 1, rnd)
           IN  /\ r.ok
               /\ Returned(r)
               /\ hook' = [hook EXCEPT !.inbox = Append(@, r.game)]
    /\ UNCHANGED <<now, pendingStarts, pendingTriggers, tx, animationPlayer,
                   coordinator, board, ui, botCall>>

\* the onSnapshot callback runs for the next snapshot
SnapshotDelivered ==
    /\ hook.inbox # <<>>
    /\ hook' = onSnapshot([hook EXCEPT !.inbox = Tail(@)], Head(hook.inbox))
    /\ UNCHANGED <<server, tx, botCall, animationPlayer, coordinator, board, ui>>

\* playOptimisticFlip: setIsAnimating(true)
AnimationStarts ==
    /\ hook.game # <<>>
    /\ ~hook.isAnimating
    /\ hook' = [hook EXCEPT !.isAnimating = TRUE, !.op = "animate"]
    /\ UNCHANGED <<server, tx, botCall, animationPlayer, coordinator, board, ui>>

\* complete(): setIsAnimating(false); GameBoard's effect sees isAnimating go
\* from true to false and calls applyPendingUpdate
AnimationCompletes ==
    /\ hook.isAnimating
    /\ hook' = applyPendingUpdate([hook EXCEPT !.isAnimating = FALSE])
    /\ UNCHANGED <<server, tx, botCall, animationPlayer, coordinator, board, ui>>

NextHook ==
    \/ HookSubscribe
    \/ ActionCommitted
    \/ SnapshotDelivered
    \/ AnimationStarts
    \/ AnimationCompletes

SpecHook == InitHook /\ [][NextHook]_vars

\* the effect runs after the render, the store delivers what it has sent and
\* a started animation reaches complete()
SpecHookLive ==
    /\ SpecHook
    /\ WF_vars(HookSubscribe)
    /\ WF_vars(SnapshotDelivered)
    /\ WF_vars(AnimationCompletes)

----------------------------------------------------------------------------
(* applyPendingUpdate on a hook that holds a buffered snapshot.  The         *)
(* documents are a dealt game, what it becomes by one committed action, the *)
(* same after the bot trigger rewrote botPendingAction, and a document with *)
(* a null tank entry.  The callback buffered the snapshot because it        *)
(* differed from the game it closed over; the shown game is any document.   *)

ReconcileRoster == CHOOSE r \in HookRosters : HasBots(NewGame(r))

DealtGame == StartedGame(ReconcileRoster, Shuffles[1])

Successors(g) ==
    {r.game : r \in {x \in {performAction(g, req, 0, 1, rnd) :
                                req \in TxRequests(g), rnd \in RandomDrawsFor(g)} :
                         x.ok}}

Retriggered(g) ==
    IF g.players[g.currentPlayerIndex + 1].isBot
    THEN {[g EXCEPT !.botPendingAction =
               ComputePendingAction(g, g.currentPlayerIndex, BotActionTTL + 1, 2, rnd)] :
              rnd \in RandomDrawsFor(g)}
    ELSE {}

NullTank(g) == [g EXCEPT !.players[1].tank = Append(@, NullCard)]

ReconcileDocs ==
    {DealtGame, NullTank(DealtGame)}
    \cup {StartedGame(r, Shuffles[3]) : r \in {x \in TxRosters : Len(x.players) = 3
                                                               /\ ~HasBots(NewGame(x))}}
    \cup Successors(DealtGame)
    \cup UNION {Retriggered(g) : g \in Successors(DealtGame)}

InitReconcile ==
    /\ game \in ReconcileDocs \ {NullTank(DealtGame)}
    /\ now = 0
    /\ idCounter = 0
    /\ response = NoResponse
    /\ pendingStarts = <<>>
    /\ pendingTriggers = <<>>
    /\ consumedIds = {}
    /\ tx = NoTx
    /\ animationPlayer = NewPlayerState
    /\ coordinator = NewCoordinator
    /\ board = NewBoard
    /\ ui = NewUi
    /\ \E c \in ReconcileDocs, g \in ReconcileDocs :
           /\ ~CompareThrows(c)
           /\ compareGameState(<<c>>, <<game>>) # {}
           /\ hook = [NewHook EXCEPT !.subscribed = TRUE, !.closure = <<c>>,
                                     !.game = <<g>>, !.pendingUpdate = <<game>>,
                                     !.received = 1, !.op = "snapshot"]
    /\ botCall = NewBot

\* GameBoard's effect (or VERIFY_EXPECTED_STATE) calls applyPendingUpdate
ReconcileRuns ==
    /\ hook' = applyPendingUpdate(hook)
    /\ UNCHANGED <<server, tx, botCall, animationPlayer, coordinator, board, ui>>

\* a further snapshot reaches the callback
SnapshotBuffered ==
    /\ hook.received < MaxBuffered
    /\ \E d \in ReconcileDocs : hook' = onSnapshot(hook, d)
    /\ UNCHANGED <<server, tx, botCall, animationPlayer, coordinator, board, ui>>

NextReconcile ==
    \/ ReconcileRuns
    \/ SnapshotBuffered

SpecReconcile == InitReconcile /\ [][NextReconcile]_vars

----------------------------------------------------------------------------
(* The bot decision on a snapshot: one to three players, the top card       *)
(* red-0 (backs red, orange, yellow) or no draw pile, each tank one of six  *)
(* and each score 0 or 1; the index ranges over the players and one place   *)
(* beyond on each side.                                                     *)

\* the tanks explored for the player at index k: empty, one matching color,
\* two matching colors, one color that does not match, three cards that do
\* not match, two cards of one matching color
BotTanks(k) ==
    { <<>>,
      <<generateCardId(0, k + 1)>>,
      <<generateCardId(0, k + 1), generateCardId(1, k + 1)>>,
      <<generateCardId(5, k + 1)>>,
      <<generateCardId(5, k + 1), generateCardId(6, k + 1), generateCardId(5, k + 5)>>,
      <<generateCardId(0, k + 1), generateCardId(0, k + 5)>> }

BotPlayers(k) ==
    {[NewPlayer(<<"bot-1", "bot-2", "bot-3", "bot-4", "bot-5">>[k + 1], TRUE, "medium")
          EXCEPT !.tank = t, !.scoreCount = c] :
         t \in BotTanks(k), c \in 0 .. 1}

BotSnapshots ==
    LET rosters(n) == {ps \in [1 .. n -> UNION {BotPlayers(k) : k \in 0 .. (n - 1)}] :
                           \A k \in 1 .. n : ps[k] \in BotPlayers(k - 1)}
        withPlayers(ps, pile) ==
            [NewGame([isLocalMode |-> FALSE, players |-> ps])
                 EXCEPT !.status = "playing", !.drawPile = pile,
                        !.topCardBack = pile]
    IN  {withPlayers(ps, <<generateCardId(0, 0)>>) :
             ps \in UNION {rosters(n) : n \in 1 .. MaxBotPlayers}}
        \cup {withPlayers(ps, <<>>) : ps \in rosters(1)}

InitBot ==
    /\ game \in BotSnapshots
    /\ now = 0
    /\ idCounter = 0
    /\ response = NoResponse
    /\ pendingStarts = <<>>
    /\ pendingTriggers = <<>>
    /\ consumedIds = {}
    /\ tx = NoTx
    /\ animationPlayer = NewPlayerState
    /\ coordinator = NewCoordinator
    /\ board = NewBoard
    /\ ui = NewUi
    /\ hook = NewHook
    /\ \E botIndex \in -1 .. Len(game.players), difficulty \in {"easy", "medium", "hard"} :
           botCall = [NewBot EXCEPT !.botIndex = botIndex, !.difficulty = difficulty]

\* the client copy is called
ClientDecides ==
    /\ botCall.copy = "none"
    /\ \E rnd \in RandomDraws :
           botCall' = [botCall EXCEPT !.copy = "client",
                      !.decision = <<botLogic_makeBotDecision(game, botCall.botIndex,
                                                              botCall.difficulty, rnd)>>]
    /\ UNCHANGED <<server, tx, animationPlayer, coordinator, board, ui, hook>>

\* the server copy is called
ServerDecides ==
    /\ botCall.copy = "none"
    /\ \E rnd \in RandomDraws :
           botCall' = [botCall EXCEPT !.copy = "server",
                      !.decision = <<botTrigger_makeBotDecision(game, botCall.botIndex,
                                                                botCall.difficulty, rnd)>>]
    /\ UNCHANGED <<server, tx, animationPlayer, coordinator, board, ui, hook>>

NextBot ==
    \/ ClientDecides
    \/ ServerDecides

SpecBot == InitBot /\ [][NextBot]_vars

----------------------------------------------------------------------------
(* The end of the deck: games in which every call so far was a steal by the  *)
(* player at turn from the next player, played with performAction until      *)
(* LateCards cards are left; every call is then explored until the draw      *)
(* pile is empty, and on the empty pile.                                     *)

LateCards == 4

LateRosters == {r \in TxRosters : ~HasBots(NewGame(r))}

RECURSIVE PlayedDown(_, _)
PlayedDown(g, left) ==
    IF Len(g.drawPile) <= left THEN g
    ELSE LET n   == Len(g.players)
             req == [gameId |-> RoomCode, action |-> "steal",
                     targetPlayerId |-> g.players[((g.currentPlayerIndex + 1) % n) + 1].id,
                     botPlayerId |-> "", actionId |-> 0,
                     authUid |-> g.players[g.currentPlayerIndex + 1].id]
             r   == performAction(g, req, 0, 1, [low |-> TRUE, pick |-> 0])
         IN  IF r.ok THEN PlayedDown(r.game, left) ELSE g

LateGames ==
    {PlayedDown(StartedGame(r, Shuffles[Len(r.players)]), LateCards) : r \in LateRosters}

InitLate ==
    /\ game \in LateGames
    /\ now = 0
    /\ idCounter = 0
    /\ response = NoResponse
    /\ pendingStarts = <<>>
    /\ pendingTriggers = <<>>
    /\ consumedIds = {}
    /\ tx = NoTx
    /\ animationPlayer = NewPlayerState
    /\ coordinator = NewCoordinator
    /\ board = NewBoard
    /\ ui = NewUi
    /\ hook = NewHook
    /\ botCall = NewBot

\* performAction on a late game
LateCall ==
    /\ \E req \in Requests(game), rnd \in RandomDrawsFor(game) :
          LET r == performAction(game, req, now, idCounter + 1, rnd)
          IN  /\ game' = r.game
              /\ response' = [ok |-> r.ok, animationHint |-> r.animationHint]
    /\ UNCHANGED <<now, idCounter, pendingStarts, pendingTriggers, consumedIds, aside>>

SpecLate == InitLate /\ [][LateCall]_vars

----------------------------------------------------------------------------
(* Properties *)

\* a step of PerformAction: the only action that leaves the clock and both
\* sets of writes in flight alone
CallStep == UNCHANGED <<now, pendingStarts, pendingTriggers, tx>>

\* a call that committed / a call that threw
SuccessStep == CallStep /\ response'.ok

FailureStep == CallStep /\ ~response'.ok

Started == game.status # "waiting"

TankLengths(g) == [k \in 1 .. Len(g.players) |-> Len(g.players[k].tank)]

ScoreCounts(g) == [k \in 1 .. Len(g.players) |-> g.players[k].scoreCount]

CardTotal(g) == Len(g.drawPile) + SumSeq(TankLengths(g)) + SumSeq(ScoreCounts(g))

LastHint == game.animationHint[1]

\* C1. Conservation: once the game is started, the cards of the draw pile,
\* the cards of all tanks and all scoreCounts add up to 105, whatever score
\* and steal calls ran.
C1_Conservation == Started => CardTotal(game) = 105

C1_Witness ==
    /\ Started
    /\ game.animationHint # <<>>
    /\ LastHint.sequence = "STEAL_SUCCESS"
    /\ SumSeq(ScoreCounts(game)) > 0
    /\ ~response.ok

\* C2. Turn validity: once the game is started, currentPlayerIndex is an
\* index of the players array.
C2_TurnValid ==
    Started => (0 <= game.currentPlayerIndex /\ game.currentPlayerIndex < Len(game.players))

\* the last of three players has acted and the turn has wrapped around
C2_Witness ==
    /\ Len(game.players) = 3
    /\ game.animationHint # <<>>
    /\ LastHint.playerId = game.players[3].id
    /\ game.currentPlayerIndex = 0

\* C3. Monotonicity: no step lowers a player's scoreCount.
C3_ScoreMonotone ==
    [][\A k \in 1 .. Len(game.players) :
           game'.players[k].scoreCount >= game.players[k].scoreCount]_vars

\* C4. Once the game is finished, every score or steal call fails and leaves
\* the document unchanged.
C4_FinishedRejects ==
    [][(game.status = "finished" /\ CallStep) => (~response'.ok /\ game' = game)]_vars

StatusRank(status) ==
    IF status = "waiting" THEN 0 ELSE IF status = "playing" THEN 1 ELSE 2

\* C5. The status only moves waiting -> playing -> finished: no step moves it
\* backward.
C5_StatusForward == [][StatusRank(game'.status) >= StatusRank(game.status)]_vars

\* C6. Win detection: a started game is finished exactly when some player's
\* scoreCount has reached the threshold, 15 with two players and 10
\* otherwise.
C6_WinDetection ==
    Started =>
        (game.status = "finished" <=>
            \E k \in 1 .. Len(game.players) :
                game.players[k].scoreCount >=
                    (IF Len(game.players) = 2 THEN 15 ELSE 10))

C6_Witness ==
    /\ game.status = "finished"
    /\ Len(game.players) = 2
    /\ response.ok

\* the index of the player a committed call acted for
ActorIndex == findIndex(game.players, game'.animationHint[1].playerId)

\* C7. Chain rule: a committed steal that matched in a two-player game leaves
\* currentPlayerIndex where it was; every other committed action moves it to
\* (actor + 1) mod players.length.
C7_ChainRule ==
    [][SuccessStep =>
          IF Len(game.players) = 2 /\ game'.animationHint[1].sequence = "STEAL_SUCCESS"
          THEN game'.currentPlayerIndex = game.currentPlayerIndex
          ELSE game'.currentPlayerIndex = (ActorIndex + 1) % Len(game.players)]_vars

C7_Witness ==
    /\ response.ok
    /\ Len(game.players) = 2
    /\ LastHint.sequence = "STEAL_SUCCESS"
    /\ game.players[game.currentPlayerIndex + 1].id = LastHint.playerId
    /\ game.currentPlayerIndex = 1

\* the cards of a sequence that have / do not have the color of a card
SameColor(cards, card) == SelectSeq(cards, LAMBDA c : c \div 15 = card \div 15)

OtherColor(cards, card) == SelectSeq(cards, LAMBDA c : c \div 15 # card \div 15)

SeqToSet(cards) == {cards[i] : i \in 1 .. Len(cards)}

DrawnCard == game.drawPile[Len(game.drawPile)]

\* C8. Score result: a committed score call pops the top card into the
\* actor's tank; with k >= 2 cards of its color there, exactly those leave the
\* tank, scoreCount grows by k and the hint is SCORE_SUCCESS with their ids;
\* otherwise the card stays, scoreCount stays and the hint is SCORE_FAIL with
\* the drawn id alone.
C8_ScoreResult ==
    [][(SuccessStep /\ game'.animationHint[1].sequence \in {"SCORE_SUCCESS", "SCORE_FAIL"}) =>
          LET hint   == game'.animationHint[1]
              a      == ActorIndex + 1
              filled == Append(game.players[a].tank, DrawnCard)
              k      == Len(SameColor(filled, DrawnCard))
          IN  /\ game'.drawPile = SubSeq(game.drawPile, 1, Len(game.drawPile) - 1)
              /\ \A j \in 1 .. Len(game.players) : j # a => game'.players[j] = game.players[j]
              /\ IF k >= 2
                 THEN /\ game'.players[a].tank = OtherColor(filled, DrawnCard)
                      /\ game'.players[a].scoreCount = game.players[a].scoreCount + k
                      /\ hint.sequence = "SCORE_SUCCESS"
                      /\ Len(hint.affectedCardIds) = k
                      /\ SeqToSet(hint.affectedCardIds) = SeqToSet(SameColor(filled, DrawnCard))
                 ELSE /\ game'.players[a].tank = filled
                      /\ game'.players[a].scoreCount = game.players[a].scoreCount
                      /\ hint.sequence = "SCORE_FAIL"
                      /\ hint.affectedCardIds = <<DrawnCard>>]_vars

C8_Witness ==
    /\ response.ok
    /\ LastHint.sequence = "SCORE_SUCCESS"
    /\ Len(LastHint.affectedCardIds) >= 3
    /\ \E k \in 1 .. Len(game.players) :
           /\ game.players[k].id = LastHint.playerId
           /\ game.players[k].tank # <<>>

\* C9. Steal result: a committed steal call pops the top card into the
\* target's tank; with k >= 2 cards of its color there, exactly those leave the
\* target's tank and are appended to the actor's tank and the hint is
\* STEAL_SUCCESS; otherwise the card stays with the target and the hint is
\* STEAL_FAIL; no scoreCount changes.
C9_StealResult ==
    [][(SuccessStep /\ game'.animationHint[1].sequence \in {"STEAL_SUCCESS", "STEAL_FAIL"}) =>
          LET hint   == game'.animationHint[1]
              a      == ActorIndex + 1
              b      == findIndex(game.players, hint.targetPlayerId) + 1
              filled == Append(game.players[b].tank, DrawnCard)
              k      == Len(SameColor(filled, DrawnCard))
          IN  /\ a # b
              /\ game'.drawPile = SubSeq(game.drawPile, 1, Len(game.drawPile) - 1)
              /\ ScoreCounts(game') = ScoreCounts(game)
              /\ \A j \in 1 .. Len(game.players) :
                     j \notin {a, b} => game'.players[j] = game.players[j]
              /\ IF k >= 2
                 THEN /\ game'.players[b].tank = OtherColor(filled, DrawnCard)
                      /\ game'.players[a].tank =
                             game.players[a].tank \o SameColor(filled, DrawnCard)
                      /\ hint.sequence = "STEAL_SUCCESS"
                 ELSE /\ game'.players[b].tank = filled
                      /\ game'.players[a].tank = game.players[a].tank
                      /\ hint.sequence = "STEAL_FAIL"]_vars

C9_Witness ==
    /\ response.ok
    /\ LastHint.sequence = "STEAL_SUCCESS"
    /\ Len(game.players) = 3
    /\ \E k \in 1 .. Len(game.players) :
           /\ game.players[k].id = LastHint.playerId
           /\ Len(game.players[k].tank) >= 9

\* C10. Failure atomicity: a call that fails leaves the stored document as it
\* was.
C10_FailureAtomic == [][FailureStep => game' = game]_vars

\* a call failed after an action had committed and a pending bot action had
\* been stored
C10_Witness ==
    /\ ~response.ok
    /\ game.status = "playing"
    /\ game.botPendingAction # <<>>
    /\ game.animationHint # <<>>

\* the call threw and wrote nothing
Rejected(g, r) == ~r.ok /\ r.game = g

\* what a call with this request would return in the current state
CallResult(req, rnd) == performAction(game, req, now, idCounter + 1, rnd)

CurrentPlayerId == game.players[game.currentPlayerIndex + 1].id

PlayerRequest(action, targetPlayerId, authUid) ==
    [gameId |-> RoomCode, action |-> action, targetPlayerId |-> targetPlayerId,
     botPlayerId |-> "", actionId |-> 0, authUid |-> authUid]

FixedDraw == [low |-> TRUE, pick |-> 0]

\* C11. Turn ownership gate: in a regular game, a call that is not a bot call
\* and whose caller is not players[currentPlayerIndex] (another player or
\* someone not in the game) is rejected and writes nothing.
C11_TurnOwnership ==
    ~game.isLocalMode =>
        \A req \in Requests(game), rnd \in RandomDrawsFor(game) :
            (req.botPlayerId = "" /\ req.authUid # CurrentPlayerId)
                => Rejected(game, CallResult(req, rnd))

\* it is bob's turn in a game of humans, a call has just been rejected, and
\* alice's score call is rejected where bob's commits
C11_Witness ==
    /\ game.status = "playing"
    /\ ~game.isLocalMode
    /\ ~HasBots(game)
    /\ game.currentPlayerIndex = 1
    /\ game.animationHint # <<>>
    /\ ~response.ok
    /\ Rejected(game, CallResult(PlayerRequest("score", "", "alice"), FixedDraw))
    /\ CallResult(PlayerRequest("score", "", "bob"), FixedDraw).ok

\* the id of the player a request acts for
ActingId(req) ==
    IF req.botPlayerId # "" THEN req.botPlayerId
    ELSE IF game.isLocalMode THEN CurrentPlayerId
    ELSE req.authUid

\* a steal that names the acting player or nobody in the game
InvalidTarget(req) ==
    /\ req.action = "steal"
    /\ req.targetPlayerId # ""
    /\ (req.targetPlayerId = ActingId(req) \/ req.targetPlayerId \notin PlayerIds(game))

ScoreInstead(req) == [req EXCEPT !.action = "score", !.targetPlayerId = ""]

C13_Serialized ==
    [][tx'.version = tx.version + 1 =>
          /\ \E i \in 1 .. Len(tx.inflight) :
                 /\ tx'.inflight = RemoveAt(tx.inflight, i)
                 /\ CallResult(tx.inflight[i].req, tx.inflight[i].rnd).ok
                 /\ game' = CallResult(tx.inflight[i].req, tx.inflight[i].rnd).game
          /\ \A k \in 1 .. Len(tx.drawn) : tx.drawn[k] # tx'.drawn[Len(tx'.drawn)]]_vars

\* two calls have committed and a third, begun before the last commit, has
\* run again on the document that commit left
C13_Witness ==
    /\ tx.version = 2
    /\ Len(tx.drawn) = 2
    /\ response.ok
    /\ \E i \in 1 .. Len(tx.inflight) :
           /\ tx.inflight[i].attempt = 2
           /\ tx.inflight[i].version = tx.version
           /\ tx.inflight[i].read = game
           /\ CallResult(tx.inflight[i].req, tx.inflight[i].rnd).ok

Pending == game.botPendingAction[1]

\* the bot calls presenting one of the given actionIds
BotRequests(actionIds) ==
    [gameId : {RoomCode}, action : {"score", "steal"},
     targetPlayerId : PlayerIds(game) \cup {""},
     botPlayerId : BotPlayerIds(game), actionId : actionIds, authUid : {""}]

\* C14. A bot call (one with botPlayerId) that carries no actionId, or an
\* actionId other than that of the stored pending bot action, is rejected and
\* writes nothing.
C14_BotActionIdGate ==
    \A req \in Requests(game), rnd \in RandomDrawsFor(game) :
        (/\ req.botPlayerId # ""
         /\ \/ req.actionId = 0
            \/ game.botPendingAction = <<>>
            \/ req.actionId # Pending.actionId)
            => Rejected(game, CallResult(req, rnd))

\* C15. After a committed action whose new current player is a bot, the
\* stored botPendingAction is that bot's and is not consumed.
C15_NextBotPending ==
    [][(SuccessStep /\ game'.players[game'.currentPlayerIndex + 1].isBot) =>
          /\ game'.botPendingAction # <<>>
          /\ game'.botPendingAction[1].botPlayerId =
                 game'.players[game'.currentPlayerIndex + 1].id
          /\ ~game'.botPendingAction[1].consumed]_vars

\* C16. Replay rejection: a bot call presenting the actionId of a pending
\* action that a committed call has consumed is rejected and writes nothing.
C16_ReplayRejected ==
    \A req \in BotRequests(consumedIds), rnd \in RandomDrawsFor(game) :
        Rejected(game, CallResult(req, rnd))

Expired == game.botPendingAction # <<>> /\ Pending.expiresAt < now

\* C17. Expiry: when the stored pending bot action has expired, every bot
\* call presenting an actionId, the pending one or another, is rejected and
\* writes nothing.
C17_ExpiredRejected ==
    Expired =>
        \A req \in Requests(game), rnd \in RandomDrawsFor(game) :
            (req.botPlayerId # "" /\ req.actionId # 0)
                => Rejected(game, CallResult(req, rnd))

\* the bot is at turn with its unconsumed pending action expired: the call
\* that presents its actionId and the call that presents another actionId for
\* the same bot, action and target are both rejected
C17_Witness ==
    /\ game.status = "playing"
    /\ Expired
    /\ ~Pending.consumed
    /\ Pending.botPlayerId = CurrentPlayerId
    /\ ~response.ok
    /\ CallResult([gameId |-> RoomCode, action |-> Pending.action,
                   targetPlayerId |-> Pending.targetPlayerId,
                   botPlayerId |-> Pending.botPlayerId,
                   actionId |-> Pending.actionId, authUid |-> ""], FixedDraw).error
           = "Bot action expired"
    /\ CallResult([gameId |-> RoomCode, action |-> Pending.action,
                   targetPlayerId |-> Pending.targetPlayerId,
                   botPlayerId |-> Pending.botPlayerId,
                   actionId |-> StaleActionId, authUid |-> ""], FixedDraw).error
           = "Invalid bot action id"

\* the optimistic flip has started and its fade has not completed
FlipRunning == animationPlayer.optimisticFlipResolve

\* a match-result animation has started and complete() has not run
HintPlaying == animationPlayer.playing # <<>>

\* C18. The optimistic flip and the playback of a server hint are never
\* active together: a hint that arrives during the flip starts its
\* match-result animation only after the fade has completed.
C18_NoOverlap == ~(FlipRunning /\ HintPlaying)

SettledIds == {x.id : x \in coordinator.settled}

\* C19. At most one enqueued sequence runs at a time; sequences start in
\* the order they were enqueued, each only after the one before it was
\* resolved with all its commands run or was rejected.
C19_SerialExecution ==
    /\ Cardinality(coordinator.runs) <= 1
    /\ \A k \in DOMAIN coordinator.started : coordinator.started[k] = k
    /\ \A k \in DOMAIN coordinator.started :
           k < Len(coordinator.started) => coordinator.started[k] \in SettledIds
    /\ \A x \in coordinator.settled : x.outcome = "resolved" => x.left = 0
    /\ \A r \in coordinator.runs :
           r.id = coordinator.started[Len(coordinator.started)]

\* the second sequence runs after the first was rejected, a third waits
C19_Witness ==
    /\ \E r \in coordinator.runs : r.id = 2
    /\ \E x \in coordinator.settled : x.id = 1 /\ x.outcome = "rejected"
    /\ Len(coordinator.queue) = 1

\* C20. On one client no hint is enqueued for playback twice, whatever the
\* order of the call's response, the snapshot carrying the hint and later
\* snapshots carrying it again.
C20_HintOnce ==
    \A i, j \in DOMAIN board.enqueuedHints :
        i # j => board.enqueuedHints[i] # board.enqueuedHints[j]

\* C21. Every sequence enqueued on the coordinator is eventually resolved or
\* rejected and the coordinator returns to not-running; a PLAY_SERVER_HINT
\* command always completes.
C21_QueueDrains == coordinator.isRunning ~> ~coordinator.isRunning

\* C22. A flip in phase half1 eventually has its promise resolved, even if
\* the animationend signal never arrives.
C22_FlipResolves ==
    (animationPlayer.flipPhase = "half1")
        ~> (animationPlayer.flips \in animationPlayer.resolvedFlips)

\* C26. A Score or Steal begun by the user starts its optimistic flip only
\* while the client is idle: no flip or hint playback is active and no
\* coordinator sequence is running.
C26_ClickOnlyWhenIdle ==
    [][animationPlayer'.flips > animationPlayer.flips
          => /\ ~coordinator.isRunning
             /\ ~animationPlayer.isAnimating
             /\ ~animationPlayer.hintResolve]_vars

\* C23. While an animation is active on a client, no incoming snapshot
\* changes the game the client shows.
C23_BufferedWhileAnimating ==
    [][hook.isAnimating /\ hook'.isAnimating => hook'.game = hook.game]_vars

EmptyDiff ==
    /\ hook.game # <<>>
    /\ ~CompareThrows(hook.game[1])
    /\ ~CompareThrows(hook.pendingUpdate[1])
    /\ compareGameState(hook.game, hook.pendingUpdate) = {}

\* C24. A buffered snapshot replaces the shown game only when the diff of
\* the shown game and the buffer is empty; when the diff is not empty or the
\* comparison throws, the shown game and the buffer both stay as they are.
C24_ReconcilePolicy ==
    [][hook'.op = "apply" /\ hook.pendingUpdate # <<>>
          => IF EmptyDiff
             THEN hook'.game = hook.pendingUpdate /\ hook'.pendingUpdate = <<>>
             ELSE hook'.game = hook.game
                  /\ hook'.pendingUpdate = hook.pendingUpdate]_vars

C24_Witness ==
    /\ hook.op = "apply"
    /\ hook.result
    /\ hook.game # hook.closure
    /\ hook.pendingUpdate = <<>>

Decision == botCall.decision[1]

Decided == botCall.decision # <<>>

\* a snapshot the strategies are meant for
WellFormedCall ==
    /\ Decided
    /\ game.drawPile # <<>>
    /\ ValidBotIndex(game, botCall.botIndex)

Opponents == {i \in 0 .. (Len(game.players) - 1) : i # botCall.botIndex}

\* the lowest index among those of S where f is largest
LowestMax(S, f) ==
    CHOOSE i \in S : \A j \in S : f[j] < f[i] \/ (f[j] = f[i] /\ i <= j)

\* distinct tank colors among the back colors of the top card, per index
Matches ==
    [i \in 0 .. (Len(game.players) - 1) |->
        Cardinality({c \in BackColors(game.drawPile[Len(game.drawPile)]) :
                        \E k \in 1 .. Len(game.players[i + 1].tank) :
                            Color(game.players[i + 1].tank[k]) = c})]

Scores == [i \in 0 .. (Len(game.players) - 1) |-> game.players[i + 1].scoreCount]

TankSizes == [i \in 0 .. (Len(game.players) - 1) |-> Len(game.players[i + 1].tank)]

StealFrom(i) == [action |-> "steal", targetPlayer |-> i]

\* C27. The decision function never throws; it returns score, or steal
\* with the index of an existing player other than the bot; for an empty
\* draw pile or an index out of range it returns score.
C27_FallbackSafety ==
    Decided =>
        /\ Decision.action \in {"score", "steal"}
        /\ Decision.action = "steal" =>
               Decision.targetPlayer \in Opponents
        /\ (game.drawPile = <<>> \/ ~ValidBotIndex(game, botCall.botIndex)) =>
               Decision = ScoreDecision

\* the decision table of the hard strategy
HardTable ==
    LET own == Matches[botCall.botIndex]
        T   == LowestMax(Opponents, Matches)
    IN  IF 2 * own >= 3 THEN ScoreDecision
        ELSE IF Opponents # {} /\ T = LowestMax(Opponents, Scores)
                /\ 100 * Matches[T] >= 66 * 3
        THEN StealFrom(T)
        ELSE IF Opponents # {} /\ 2 * Matches[T] >= 3 THEN StealFrom(T)
        ELSE IF own > 0 THEN ScoreDecision
        ELSE IF Opponents = {} THEN ScoreDecision
        ELSE StealFrom(LowestMax(Opponents, TankSizes))

\* C28. The hard strategy scores when its own probability is at least 0.5;
\* otherwise steals from the opponent of highest probability when that one
\* leads the score with probability at least 0.66 or has probability at
\* least 0.5; otherwise scores when its own probability is above 0;
\* otherwise steals from the opponent with the most tank cards, or scores
\* when there is no opponent.
C28_HardTable ==
    WellFormedCall /\ botCall.difficulty = "hard" => Decision = HardTable

C28_Witness ==
    /\ WellFormedCall
    /\ botCall.difficulty = "hard"
    /\ Len(game.players) = 3
    /\ Matches[botCall.botIndex] = 1
    /\ Decision.action = "steal"
    /\ Decision.targetPlayer = 2

\* C29. The medium strategy scores exactly when a color of its tank is
\* among the back colors of the top card; otherwise it steals from the
\* opponent with the most tank cards, the lowest index on ties, or scores
\* when there is no opponent.
C29_MediumTable ==
    WellFormedCall /\ botCall.difficulty = "medium" =>
        Decision = IF Matches[botCall.botIndex] >= 1 \/ Opponents = {}
                   THEN ScoreDecision
                   ELSE StealFrom(LowestMax(Opponents, TankSizes))

C29_Witness ==
    /\ WellFormedCall
    /\ botCall.difficulty = "medium"
    /\ Len(game.players) = 3
    /\ botCall.botIndex = 0
    /\ TankSizes[1] = TankSizes[2]
    /\ Scores[2] > Scores[1]
    /\ Decision = StealFrom(1)

\* C30. The easy strategy always scores when the bot has exactly one
\* opponent, whatever Math.random() returns; with more opponents it scores
\* or steals from one of its opponents.
C30_EasyOneOpponent ==
    WellFormedCall /\ botCall.difficulty = "easy" =>
        IF Cardinality(Opponents) = 1 THEN Decision = ScoreDecision
        ELSE Decision = ScoreDecision
             \/ (Decision.action = "steal" /\ Decision.targetPlayer \in Opponents)

\* the snapshots that differ from g only in what is hidden: the top card is
\* any card with the same back colors, and cards lie below it
HiddenVariants(g) ==
    LET top    == g.drawPile[Len(g.drawPile)]
        tops   == {c \in Cards : c % CardsPerColor = 0
                                    /\ BackColorsTable[c] = BackColorsTable[top]}
        belows == {<<>>, <<generateCardId(3, 9)>>,
                   <<generateCardId(4, 9), generateCardId(0, 9)>>}
    IN  {[g EXCEPT !.drawPile = below \o <<c>>, !.topCardBack = <<c>>] :
             c \in tops, below \in belows}

\* C31. For medium and hard, two snapshots that differ only in the face color
\* of the top card and in the cards below it yield the same decision.
C31_ImperfectInformation ==
    WellFormedCall /\ botCall.difficulty \in {"medium", "hard"} =>
        \A t \in HiddenVariants(game) :
            makeBotDecision(t, botCall.botIndex, botCall.difficulty, FixedDraw) = Decision

C31_Witness ==
    /\ WellFormedCall
    /\ botCall.difficulty = "hard"
    /\ botCall.copy = "server"
    /\ Decision.action = "steal"
    /\ Cardinality(HiddenVariants(game)) > 3

\* C32. The diff of a snapshot with itself is empty.
C32_DiffIdempotent ==
    \A s \in {hook.game, hook.pendingUpdate, hook.closure, <<game>>} :
        s # <<>> /\ ~CompareThrows(s[1]) => compareGameState(s, s) = {}

C32_Witness ==
    /\ hook.op = "apply"
    /\ hook.result
    /\ hook.received = 1
    /\ hook.game = <<game>>
    /\ Len(game.players) = 3

SwapFirstTwo(cards) == <<cards[2], cards[1]>> \o SubSeq(cards, 3, Len(cards))

\* the snapshots obtained from g by changing one field
SingleFieldChanges(g) ==
    {[g EXCEPT !.status = "finished"],
     [g EXCEPT !.drawPile = SwapFirstTwo(@)],
     [g EXCEPT !.players[1].scoreCount = @ + 1],
     [g EXCEPT !.players[1].tank = SwapFirstTwo(@)],
     [g EXCEPT !.currentPlayerIndex = (@ + 1) % Len(g.players)]} \ {g}

\* C33. The diff of a snapshot and the same snapshot with one field changed
\* (status, a card below the top, a scoreCount, the order of a tank,
\* currentPlayerIndex) is never empty.
C33_DiffSensitive ==
    ~CompareThrows(game) =>
        \A t \in SingleFieldChanges(game) : compareGameState(<<game>>, <<t>>) # {}

\* C34. A call without botPlayerId and without an authenticated caller is
\* rejected with the authentication error and writes nothing; in local mode
\* a call of an authenticated caller commits only if some player id of the
\* game starts with '<caller uid>-local-'.
C34_AuthGate ==
    \A req \in Requests(game), rnd \in RandomDrawsFor(game) :
        /\ (req.botPlayerId = "" /\ req.authUid = "") =>
               /\ Rejected(game, CallResult(req, rnd))
               /\ CallResult(req, rnd).error = "User must be authenticated"
        /\ (game.isLocalMode /\ req.botPlayerId = "" /\ CallResult(req, rnd).ok) =>
               PlayerIds(game) \cap LocalIdsOf(req.authUid) # {}

\* a local game in play after a committed action: the controller's call
\* commits, a stranger's and an unauthenticated one are rejected
C34_Witness ==
    /\ game.status = "playing"
    /\ game.isLocalMode
    /\ response.ok
    /\ CallResult(PlayerRequest("score", "", "alice"), FixedDraw).ok
    /\ CallResult(PlayerRequest("score", "", "mallory"), FixedDraw).error
           = "Not authorized to perform actions in this local game"
    /\ CallResult(PlayerRequest("score", "", ""), FixedDraw).error
           = "User must be authenticated"

BotCall(action, botPlayerId) ==
    [gameId |-> RoomCode, action |-> action, targetPlayerId |-> "",
     botPlayerId |-> botPlayerId, actionId |-> 0, authUid |-> ""]

\* C37. A call whose botPlayerId names a player who is not flagged isBot,
\* who is not in the game, or whose turn it is not, writes nothing.
C37_BotPathGate ==
    \A req \in Requests(game), rnd \in RandomDrawsFor(game) :
        (/\ req.botPlayerId # ""
         /\ \/ req.botPlayerId \notin PlayerIds(game)
            \/ req.botPlayerId # CurrentPlayerId
            \/ ~game.players[game.currentPlayerIndex + 1].isBot)
            => Rejected(game, CallResult(req, rnd))

\* a human is at turn in a game with a bot: the bot call that names the
\* human, the one that names the bot and the one that names a stranger are
\* rejected
C37_Witness ==
    /\ game.status = "playing"
    /\ HasBots(game)
    /\ response.ok
    /\ CurrentPlayerId = "alice"
    /\ CallResult(BotCall("score", "alice"), FixedDraw).error = "Player is not a bot"
    /\ CallResult(BotCall("score", "bot-1"), FixedDraw).error = "Not bot's turn"
    /\ CallResult(BotCall("score", "ghost"), FixedDraw).error = "Bot not in game"

\* a call that passes every check on the request and on the caller: score, or
\* steal with any target named, by the player at turn
ByPlayerAtTurn(req) ==
    /\ req.gameId = RoomCode
    /\ req.action \in {"score", "steal"}
    /\ req.action = "steal" => req.targetPlayerId # ""
    /\ req.botPlayerId = ""
    /\ req.authUid = CurrentPlayerId

NoWinner ==
    \A k \in 1 .. Len(game.players) :
        ~checkWinCondition(game.players[k].scoreCount, Len(game.players))

C35_CallSentDuringFlip ==
    [][\A h \in ui'.handlers \ ui.handlers :
           h.stage = "call" => h.flip \notin animationPlayer.resolvedFlips]_vars

\* C38. On a client the last-seen hint timestamp never decreases, in whatever
\* order the responses of its calls and the snapshots carrying hints arrive.
C38_LastSeenMonotonic ==
    [][board'.lastSeenHint >= board.lastSeenHint]_vars

\* hardStrategy with its second rule, the defensive block, taken out
HardWithoutBlock(g, botIndex) ==
    LET bot     == g.players[botIndex + 1]
        topCard == g.drawPile[Len(g.drawPile)]
        back    == BackColors(topCard)
        counts  == [k \in 1 .. Len(g.players) |->
                       MatchingColorCount(g.players[k].tank, back)]
        \* bestStealProb starts at 0, so a target needs a count above 0
        bestStealTargetIndex == ScanMax(counts, botIndex, 0, 0, NoTarget, Len(g.players))
        bestStealCount == IF bestStealTargetIndex = NoTarget THEN 0
                          ELSE counts[bestStealTargetIndex + 1]
        targetIndex == findPlayerWithMostCards(g, botIndex)
    IN  IF ProbAtLeast(bot.tank, back, 50)
        THEN [action |-> "score", targetPlayer |-> NoTarget]
        ELSE IF bestStealCount * 100 >= 50 * 3 /\ bestStealTargetIndex # NoTarget
        THEN [action |-> "steal", targetPlayer |-> bestStealTargetIndex]
        ELSE IF MatchingColorCount(bot.tank, back) > 0
        THEN [action |-> "score", targetPlayer |-> NoTarget]
        ELSE IF targetIndex = NoTarget
        THEN [action |-> "score", targetPlayer |-> NoTarget]
        ELSE [action |-> "steal", targetPlayer |-> targetIndex]

\* C39. The defensive-block rule of the hard strategy is redundant: on every
\* snapshot hardStrategy, in the client copy and in the server copy, returns
\* the action and target that the same strategy without the rule 'best
\* target is the score leader and probability >= 0.66' returns.
C39_BlockRedundant ==
    WellFormedCall /\ botCall.difficulty = "hard" =>
        Decision = HardWithoutBlock(game, botCall.botIndex)

\* a hard bot whose own probability is below 0.5 has blocked the score
\* leader, whose probability is at least 0.66
C39_Witness ==
    /\ WellFormedCall
    /\ botCall.difficulty = "hard"
    /\ 2 * Matches[botCall.botIndex] < 3
    /\ Decision.action = "steal"
    /\ Decision.targetPlayer = findLeadingOpponent(game, botCall.botIndex)
    /\ 100 * Matches[Decision.targetPlayer] >= 66 * 3

\* C36. Under every interleaving of the calls' transactions and the write of
\* the processBotTurn trigger: while status is playing, a stored
\* botPendingAction that is neither consumed nor expired belongs to the
\* player at turn.
C36_PendingIsCurrentBot ==
    (/\ game.status = "playing"
     /\ game.botPendingAction # <<>>
     /\ ~Pending.consumed
     /\ Pending.expiresAt > now)
        => Pending.botPlayerId = CurrentPlayerId
====
